---- MODULE Spec2Model ----
(***************************************************************************)
(* Taaja News: a model of the backend's language administration, its       *)
(* language cache, the engagement counters and the localization fallback.  *)
(*                                                                         *)
(* Every request handler is an async function: between two awaits it runs  *)
(* without interruption, and at each await (one database operation) other  *)
(* requests may run.  A handler is therefore modelled as a sequence of     *)
(* steps, one per database operation, with a program counter per request.  *)
(* The "Seq" specifications admit a request only when no other request is  *)
(* in flight; the others interleave the steps of all requests.             *)
(***************************************************************************)
EXTENDS Integers, Sequences, FiniteSets, TLC

\* ------------------------------------------------------------------ bounds
\* Number of language-admin requests that may be in flight together.
MaxLangReqs == 2

LangReqs == 1..MaxLangReqs

\* Number of engagement requests that may be in flight together.
MaxEngReqs == 2

EngReqs == 1..MaxEngReqs

\* Language-admin requests served in one behaviour.
MaxLangCalls == 3

\* Engagement requests served in one behaviour.
MaxEngCalls == 3

\* Entries of a multilingual field.
MaxEntries == 2

\* Article requests that may be in flight together.
MaxArtReqs == 2

\* Article requests served in one behaviour.
MaxArtCalls == 2

\* Milliseconds the clock may advance.
MaxClock == 2

\* City or category requests that may be in flight together.
MaxAdminReqs == 2

\* City or category requests served in one behaviour.
MaxCatCalls == 3

\* ------------------------------------------------------------------ values
NoCode == "none"

\* The languages of the seed script, in the order of their `order` field.
LangSeq == <<"te", "en", "hi">>

LangCodes == {LangSeq[i] : i \in 1..Len(LangSeq)}

\* The seeded Language collection: Telugu is the default, all are active.
Position(c) == CHOOSE i \in 1..Len(LangSeq) : LangSeq[i] = c

SeedLanguages ==
  [c \in LangCodes |->
     [isActive |-> TRUE, isDefault |-> (c = "te"), order |-> Position(c)]]

\* A language code an admin may add, and the codes a request may name.
NewCodes == {"ta"}

AllCodes == LangCodes \cup NewCodes

\* Values of req.body.order; 0 also stands for a body without the key.
Orders == {0, 2}

\* The language refreshCache falls back to when no language is active.
BuiltinEnglish == [code |-> "en", isDefault |-> FALSE]

VARIABLES
  langs,            \* Language collection: code -> [isActive, isDefault, order]
  lpc,              \* per request: position in its handler
  lop,              \* per request: which route it runs
  ltarget,          \* per request: the language of req.params.id
  lsnap,            \* per request: the document as findById returned it
  ldoc,             \* per request: the in-memory document after the assignments
  lread,            \* per request: what refreshCache's find returned
  cachedLanguages,  \* languageCache: the cached list (<<>> with cacheSet FALSE is null)
  cacheSet,         \* languageCache: cachedLanguages is not null
  defaultLanguage,  \* languageCache: the cached default language's code
  lastRefresh,      \* languageCache: "null", "fresh" (within the TTL) or "expired"
  lcalls            \* language-admin requests received so far

langVars == <<langs, lpc, lop, ltarget, lsnap, ldoc, lread,
              cachedLanguages, cacheSet, defaultLanguage, lastRefresh, lcalls>>

VARIABLES
  engDocs,          \* Engagement collection of the article: a set of documents
  views,            \* article.engagement.views
  reacts,           \* article.engagement.likes / .dislikes / .shares, by type
  epc,              \* per request: position in its handler
  eop,              \* per request: "view", "like" or "dislike"
  euser,            \* per request: req.user._id, or NoUser
  esess,            \* per request: req.body.sessionId, or NoSess
  eip,              \* per request: req.ip, or NoIp
  efound,           \* per request: _id of the document the last findOne returned
  ehadOpp,          \* per request: the opposite reaction was found
  eaction,          \* per request: the outcome reported in the response
  viewCalls,        \* history: view calls completed per identity in this 24 h window (0, 1, 2+)
  viewRecs,         \* history: view increments per identity in this 24 h window
  ecalls            \* engagement requests received so far

engVars == <<engDocs, views, reacts, epc, eop, euser, esess, eip, efound,
             ehadOpp, eaction, viewCalls, viewRecs, ecalls>>

VARIABLES
  locField,         \* the field value handed to the localization helpers
  locLang,          \* the requested language (req.query.lang)
  locDefault,       \* the fallback: languageCache.getDefaultLanguageCode()
  beOut,            \* what the backend getLocalizedValue returned
  feOut,            \* what the frontend getLocalizedValue returned
  epName,           \* the endpoint that served the stored title, or "none"
  epOut             \* the title that endpoint put in its response

locVars == <<locField, locLang, locDefault, beOut, feOut, epName, epOut>>

VARIABLES
  articles,         \* Article collection: a sequence of documents, _id = position
  articleCount,     \* the category's articleCount
  articlesCount,    \* per user: articlesCount
  areq,             \* per article request: position, route, user, target, body, locals
  now,              \* Date.now(), in milliseconds since the server started
  acalls            \* article requests received so far

artVars == <<articles, articleCount, articlesCount, areq, now, acalls>>

VARIABLES
  cities,           \* City collection: a sequence of documents
  cats,             \* Category collection: a sequence of documents, _id = position
  kreq,             \* per city / category request: position, route, body, locals
  kcalls            \* city and category requests received so far

catVars == <<cities, cats, kreq, kcalls>>

VARIABLES
  comments,         \* Comment collection of the article: a sequence, _id = position
  commentsCount,    \* article.engagement.commentsCount
  creq,             \* per comment request: position, route, user, target, locals
  ccalls            \* comment requests received so far

comVars == <<comments, commentsCount, creq, ccalls>>

VARIABLES
  users,            \* User collection: _id -> [role, isActive]
  ureq,             \* per user-admin request: position, route, actor, target, body
  ucalls            \* user-admin requests received so far

usrVars == <<users, ureq, ucalls>>

VARIABLE
  served            \* the last response of a public article route: route and articles

restVars == <<comVars, usrVars, served>>

vars == <<langVars, engVars, locVars, artVars, catVars, restVars>>

nonLangVars == <<engVars, locVars, artVars, catVars, restVars>>

nonEngVars == <<langVars, locVars, artVars, catVars, restVars>>

nonLocVars == <<langVars, engVars, artVars, catVars, restVars>>

nonComVars == <<langVars, engVars, locVars, artVars, catVars, usrVars, served>>

nonUsrVars == <<langVars, engVars, locVars, artVars, catVars, comVars, served>>

NoDoc == [isActive |-> FALSE, isDefault |-> FALSE, order |-> 0]

InitLang ==
  /\ langs = SeedLanguages
  /\ lpc = [r \in LangReqs |-> "idle"]
  /\ lop = [r \in LangReqs |-> "none"]
  /\ ltarget = [r \in LangReqs |-> NoCode]
  /\ lsnap = [r \in LangReqs |-> NoDoc]
  /\ ldoc = [r \in LangReqs |-> NoDoc]
  /\ lread = [r \in LangReqs |-> <<>>]
  /\ cachedLanguages = <<>>
  /\ cacheSet = FALSE
  /\ defaultLanguage = NoCode
  /\ lastRefresh = "null"
  /\ lcalls = 0

\* ------------------------------------------------- Language model and cache

\* Language.findById(id): null when no document has the id.
FindById(db, c) == IF c \in DOMAIN db THEN db[c] ELSE NoDoc

\* The find of refreshCache without its isActive filter.
FindAllSorted(db) ==
  LET n == Cardinality(DOMAIN db)
      sorted == {g \in [1..n -> DOMAIN db] :
                   \A i, j \in 1..n : i < j => g[i] # g[j] /\ db[g[i]].order <= db[g[j]].order}
  IN  {[i \in 1..n |-> [code |-> g[i], isDefault |-> db[g[i]].isDefault]] : g \in sorted}

\* Language.find({ isActive: true }).sort({ order: 1 }).lean(): the lists the
\* query may return.  Documents with equal order come in an order the
\* database does not promise, so each arrangement of them is a result.
FindActiveSorted(db) ==
  LET act == {c \in DOMAIN db : db[c].isActive}
      n == Cardinality(act)
      sorted == {g \in [1..n -> act] :
                   \A i, j \in 1..n : i < j => g[i] # g[j] /\ db[g[i]].order <= db[g[j]].order}
  IN  {[i \in 1..n |-> [code |-> g[i], isDefault |-> db[g[i]].isDefault]] : g \in sorted}

\* cachedLanguages.find(l => l.isDefault) || cachedLanguages[0] || { code: 'en' }
PickDefault(list) ==
  LET flagged == {i \in 1..Len(list) : list[i].isDefault}
  IN  IF flagged # {}
        THEN list[CHOOSE i \in flagged : \A j \in flagged : i <= j].code
        ELSE IF Len(list) > 0 THEN list[1].code ELSE BuiltinEnglish.code

\* The pre-save hook's variant that forgets to clear the other defaults.
PreSaveKeepsOthers(db, c, snap, doc) == db

\* languageSchema.pre('save'): when this document is the default and its
\* isDefault was modified, updateMany clears isDefault on every other one.
PreSaveHook(db, c, snap, doc) ==
  IF doc.isDefault /\ doc.isDefault # snap.isDefault
    THEN [d \in DOMAIN db |->
            IF d # c /\ db[d].isDefault
              THEN [db[d] EXCEPT !.isDefault = FALSE]
              ELSE db[d]]
    ELSE db

\* document.save(): writes the modified paths only ($set of what differs from
\* the document as it was loaded).
SaveModified(db, c, snap, doc) ==
  [db EXCEPT ![c] =
     [isActive  |-> IF doc.isActive # snap.isActive THEN doc.isActive ELSE @.isActive,
      isDefault |-> IF doc.isDefault # snap.isDefault THEN doc.isDefault ELSE @.isDefault,
      order     |-> IF doc.order # snap.order THEN doc.order ELSE @.order]]

\* PUT /api/languages/:id/default, up to its first database write.
BeginSetDefault(r, c) ==
  /\ UNCHANGED nonLangVars
  /\ lcalls < MaxLangCalls
  /\ lcalls' = lcalls + 1
  /\ lpc[r] = "idle"
  /\ lop' = [lop EXCEPT ![r] = "setDefault"]
  /\ ltarget' = [ltarget EXCEPT ![r] = c]
  /\ lsnap' = [lsnap EXCEPT ![r] = FindById(langs, c)]
  /\ IF c \notin DOMAIN langs \/ ~langs[c].isActive
       THEN /\ lpc' = [lpc EXCEPT ![r] = "rejected"]
            /\ ldoc' = [ldoc EXCEPT ![r] = FindById(langs, c)]
       ELSE /\ lpc' = [lpc EXCEPT ![r] = "presave"]
            /\ ldoc' = [ldoc EXCEPT ![r] = [langs[c] EXCEPT !.isDefault = TRUE]]
  /\ UNCHANGED <<langs, lread, cachedLanguages, cacheSet, defaultLanguage, lastRefresh>>

\* PUT /api/languages/:id with isActive in the body, up to its first write.
BeginUpdate(r, c, active) ==
  /\ UNCHANGED nonLangVars
  /\ lcalls < MaxLangCalls
  /\ lcalls' = lcalls + 1
  /\ lpc[r] = "idle"
  /\ lop' = [lop EXCEPT ![r] = "update"]
  /\ ltarget' = [ltarget EXCEPT ![r] = c]
  /\ lsnap' = [lsnap EXCEPT ![r] = FindById(langs, c)]
  /\ IF c \notin DOMAIN langs \/ (langs[c].isDefault /\ active = FALSE)
       THEN /\ lpc' = [lpc EXCEPT ![r] = "rejected"]
            /\ ldoc' = [ldoc EXCEPT ![r] = FindById(langs, c)]
       ELSE /\ lpc' = [lpc EXCEPT ![r] = "presave"]
            /\ ldoc' = [ldoc EXCEPT ![r] = [langs[c] EXCEPT !.isActive = active]]
  /\ UNCHANGED <<langs, lread, cachedLanguages, cacheSet, defaultLanguage, lastRefresh>>

\* DELETE /api/languages/:id (a soft delete), up to its first write.
BeginDeactivate(r, c) ==
  /\ UNCHANGED nonLangVars
  /\ lcalls < MaxLangCalls
  /\ lcalls' = lcalls + 1
  /\ lpc[r] = "idle"
  /\ lop' = [lop EXCEPT ![r] = "deactivate"]
  /\ ltarget' = [ltarget EXCEPT ![r] = c]
  /\ lsnap' = [lsnap EXCEPT ![r] = FindById(langs, c)]
  /\ IF c \notin DOMAIN langs \/ langs[c].isDefault
       THEN /\ lpc' = [lpc EXCEPT ![r] = "rejected"]
            /\ ldoc' = [ldoc EXCEPT ![r] = FindById(langs, c)]
       ELSE /\ lpc' = [lpc EXCEPT ![r] = "presave"]
            /\ ldoc' = [ldoc EXCEPT ![r] = [langs[c] EXCEPT !.isActive = FALSE]]
  /\ UNCHANGED <<langs, lread, cachedLanguages, cacheSet, defaultLanguage, lastRefresh>>

\* language.save(), first half: the pre-save hook's updateMany.
LangPreSave(r) ==
  /\ UNCHANGED <<nonLangVars, lcalls>>
  /\ lpc[r] = "presave"
  /\ langs' = PreSaveHook(langs, ltarget[r], lsnap[r], ldoc[r])
  /\ lpc' = [lpc EXCEPT ![r] = "save"]
  /\ UNCHANGED <<lop, ltarget, lsnap, ldoc, lread,
                 cachedLanguages, cacheSet, defaultLanguage, lastRefresh>>

\* language.save(), second half: the document's own update.
LangSave(r) ==
  /\ UNCHANGED <<nonLangVars, lcalls>>
  /\ lpc[r] = "save"
  /\ langs' = SaveModified(langs, ltarget[r], lsnap[r], ldoc[r])
  /\ lpc' = [lpc EXCEPT ![r] = "refresh"]
  /\ UNCHANGED <<lop, ltarget, lsnap, ldoc, lread,
                 cachedLanguages, cacheSet, defaultLanguage, lastRefresh>>

\* refreshCache, the awaited find.
RefreshRead(r) ==
  /\ UNCHANGED <<nonLangVars, lcalls>>
  /\ lpc[r] = "refresh"
  /\ \E list \in FindActiveSorted(langs) : lread' = [lread EXCEPT ![r] = list]
  /\ lpc' = [lpc EXCEPT ![r] = "assign"]
  /\ UNCHANGED <<langs, lop, ltarget, lsnap, ldoc,
                 cachedLanguages, cacheSet, defaultLanguage, lastRefresh>>

\* refreshCache, after the find resolved: the three module variables are set.
RefreshAssign(r) ==
  /\ UNCHANGED <<nonLangVars, lcalls>>
  /\ lpc[r] = "assign"
  /\ cachedLanguages' = lread[r]
  /\ cacheSet' = TRUE
  /\ defaultLanguage' = PickDefault(lread[r])
  /\ lastRefresh' = "fresh"
  /\ lpc' = [lpc EXCEPT ![r] = "done"]
  /\ UNCHANGED <<langs, lop, ltarget, lsnap, ldoc, lread>>

\* The list refreshCache's catch installs when nothing was cached.
FallbackEnglish == [code |-> "en", isDefault |-> TRUE]

\* needsRefresh(): nothing cached, never refreshed, or older than CACHE_TTL.
needsRefresh == ~cacheSet \/ lastRefresh # "fresh"

\* refreshCache when its find throws: the catch keeps a cached list, installs
\* the fallback when there is none, and leaves lastRefresh alone; the caller
\* goes on as after a refresh.
RefreshFail(r) ==
  /\ UNCHANGED <<nonLangVars, lcalls>>
  /\ lpc[r] = "refresh"
  /\ IF cacheSet
       THEN UNCHANGED <<cachedLanguages, cacheSet, defaultLanguage>>
       ELSE /\ cachedLanguages' = <<FallbackEnglish>>
            /\ cacheSet' = TRUE
            /\ defaultLanguage' = FallbackEnglish.code
  /\ lpc' = [lpc EXCEPT ![r] = "refreshFailed"]
  /\ UNCHANGED <<langs, lop, ltarget, lsnap, ldoc, lread, lastRefresh>>

\* A read through the cache (getActiveLanguages, getDefaultLanguage, and
\* initializeCache at startup): refreshCache is awaited when needsRefresh()
\* says so, else the cached values are served as they are.
BeginRead(r) ==
  /\ UNCHANGED nonLangVars
  /\ lcalls < MaxLangCalls
  /\ lcalls' = lcalls + 1
  /\ lpc[r] = "idle"
  /\ lop' = [lop EXCEPT ![r] = "read"]
  /\ lpc' = [lpc EXCEPT ![r] = IF needsRefresh THEN "refresh" ELSE "done"]
  /\ UNCHANGED <<langs, ltarget, lsnap, ldoc, lread,
                 cachedLanguages, cacheSet, defaultLanguage, lastRefresh>>

\* The response is sent; the request's locals are gone.
LangFinish(r) ==
  /\ UNCHANGED <<nonLangVars, lcalls>>
  /\ lpc[r] \in {"done", "rejected", "refreshFailed"}
  /\ lpc' = [lpc EXCEPT ![r] = "idle"]
  /\ lop' = [lop EXCEPT ![r] = "none"]
  /\ ltarget' = [ltarget EXCEPT ![r] = NoCode]
  /\ lsnap' = [lsnap EXCEPT ![r] = NoDoc]
  /\ ldoc' = [ldoc EXCEPT ![r] = NoDoc]
  /\ lread' = [lread EXCEPT ![r] = <<>>]
  /\ UNCHANGED <<langs, cachedLanguages, cacheSet, defaultLanguage, lastRefresh>>

\* CACHE_TTL passes since the last refresh.
CacheExpire ==
  /\ UNCHANGED <<nonLangVars, lcalls>>
  /\ lastRefresh = "fresh"
  /\ lastRefresh' = "expired"
  /\ UNCHANGED <<langs, lpc, lop, ltarget, lsnap, ldoc, lread,
                 cachedLanguages, cacheSet, defaultLanguage>>

\* PUT /api/languages/:id with order in the body, up to its first write.
BeginUpdateOrder(r, c, order) ==
  /\ UNCHANGED nonLangVars
  /\ lcalls < MaxLangCalls
  /\ lcalls' = lcalls + 1
  /\ lpc[r] = "idle"
  /\ lop' = [lop EXCEPT ![r] = "update"]
  /\ ltarget' = [ltarget EXCEPT ![r] = c]
  /\ lsnap' = [lsnap EXCEPT ![r] = FindById(langs, c)]
  /\ IF c \notin DOMAIN langs
       THEN /\ lpc' = [lpc EXCEPT ![r] = "rejected"]
            /\ ldoc' = [ldoc EXCEPT ![r] = NoDoc]
       ELSE /\ lpc' = [lpc EXCEPT ![r] = "presave"]
            /\ ldoc' = [ldoc EXCEPT ![r] = [langs[c] EXCEPT !.order = order]]
  /\ UNCHANGED <<langs, lread, cachedLanguages, cacheSet, defaultLanguage, lastRefresh>>

\* POST /api/languages, up to Language.create: findOne({ code }) answers
\* 400 when the code exists.
BeginCreateLanguage(r, c, order) ==
  /\ UNCHANGED nonLangVars
  /\ lcalls < MaxLangCalls
  /\ lcalls' = lcalls + 1
  /\ lpc[r] = "idle"
  /\ lop' = [lop EXCEPT ![r] = "create"]
  /\ ltarget' = [ltarget EXCEPT ![r] = c]
  /\ lsnap' = [lsnap EXCEPT ![r] = NoDoc]
  /\ ldoc' = [ldoc EXCEPT ![r] = [isActive |-> TRUE, isDefault |-> FALSE, order |-> order]]
  /\ lpc' = [lpc EXCEPT ![r] = IF c \in DOMAIN langs THEN "rejected" ELSE "create"]
  /\ UNCHANGED <<langs, lread, cachedLanguages, cacheSet, defaultLanguage, lastRefresh>>

\* Language.create: the insert; the unique index on code rejects a code that
\* was inserted meanwhile (the catch answers 500).
LangCreate(r) ==
  /\ UNCHANGED <<nonLangVars, lcalls>>
  /\ lpc[r] = "create"
  /\ IF ltarget[r] \in DOMAIN langs
       THEN /\ lpc' = [lpc EXCEPT ![r] = "rejected"]
            /\ UNCHANGED langs
       ELSE /\ lpc' = [lpc EXCEPT ![r] = "refresh"]
            /\ langs' = [c \in DOMAIN langs \cup {ltarget[r]} |->
                           IF c = ltarget[r] THEN ldoc[r] ELSE langs[c]]
  /\ UNCHANGED <<lop, ltarget, lsnap, ldoc, lread,
                 cachedLanguages, cacheSet, defaultLanguage, lastRefresh>>

\* The updateOne operations of the reorder route's bulkWrite, in order; an
\* id that matches no document changes nothing.
BulkWrite(db, orders) ==
  LET One(d, item) == IF item.id \in DOMAIN d
                        THEN [d EXCEPT ![item.id].order = item.order] ELSE d
  IN  IF Len(orders) = 0 THEN db
      ELSE IF Len(orders) = 1 THEN One(db, orders[1])
      ELSE One(One(db, orders[1]), orders[2])

\* Bodies of the reorder route: arrays of up to two { id, order } items.
OrderItems == [id : AllCodes, order : Orders]

OrderArrays ==
  {<<>>} \cup {<<a>> : a \in OrderItems}
         \cup {<<a, b>> : a \in OrderItems, b \in {i \in OrderItems : i.id \in LangCodes}}

\* PUT /api/languages/reorder/batch through its bulkWrite; a body whose
\* orders is not an array answers 400.
BeginReorder(r, isArray, orders) ==
  /\ UNCHANGED nonLangVars
  /\ lcalls < MaxLangCalls
  /\ lcalls' = lcalls + 1
  /\ lpc[r] = "idle"
  /\ lop' = [lop EXCEPT ![r] = "reorder"]
  /\ IF isArray
       THEN /\ langs' = BulkWrite(langs, orders)
            /\ lpc' = [lpc EXCEPT ![r] = "refresh"]
       ELSE /\ UNCHANGED langs
            /\ lpc' = [lpc EXCEPT ![r] = "rejected"]
  /\ UNCHANGED <<ltarget, lsnap, ldoc, lread,
                 cachedLanguages, cacheSet, defaultLanguage, lastRefresh>>

LangBegin(r) ==
  \/ \E c \in LangCodes : BeginSetDefault(r, c)
  \/ \E c \in LangCodes, active \in BOOLEAN : BeginUpdate(r, c, active)
  \/ \E c \in LangCodes : BeginDeactivate(r, c)

LangStep(r) ==
  \/ LangPreSave(r)
  \/ LangSave(r)
  \/ RefreshRead(r)
  \/ RefreshAssign(r)
  \/ LangFinish(r)

LangOthersIdle(r) == \A q \in LangReqs \ {r} : lpc[q] = "idle"

\* Language administration, requests interleaved at their awaits.
NextLang ==
  \/ \E r \in LangReqs : LangBegin(r)
  \/ \E r \in LangReqs : LangStep(r)
  \/ CacheExpire

\* Language administration, one request at a time.
NextLangSeq ==
  \/ \E r \in LangReqs : LangOthersIdle(r) /\ LangBegin(r)
  \/ \E r \in LangReqs : LangStep(r)
  \/ CacheExpire

\* Language administration and cache reads, one request at a time, with a
\* database whose find may throw.
NextLangFail ==
  \/ \E r \in LangReqs : LangOthersIdle(r) /\ LangBegin(r)
  \/ \E r \in LangReqs : LangOthersIdle(r) /\ BeginRead(r)
  \/ \E r \in LangReqs : LangStep(r)
  \/ \E r \in LangReqs : RefreshFail(r)
  \/ CacheExpire

\* Every write route of the language administration, one request at a time.
NextLangAdmin ==
  \/ \E r \in LangReqs, c \in AllCodes : LangOthersIdle(r) /\ BeginSetDefault(r, c)
  \/ \E r \in LangReqs, c \in AllCodes, active \in BOOLEAN :
       LangOthersIdle(r) /\ BeginUpdate(r, c, active)
  \/ \E r \in LangReqs, c \in AllCodes, order \in Orders :
       LangOthersIdle(r) /\ BeginUpdateOrder(r, c, order)
  \/ \E r \in LangReqs, c \in AllCodes : LangOthersIdle(r) /\ BeginDeactivate(r, c)
  \/ \E r \in LangReqs, c \in AllCodes, order \in Orders :
       LangOthersIdle(r) /\ BeginCreateLanguage(r, c, order)
  \/ \E r \in LangReqs, isArray \in BOOLEAN, orders \in OrderArrays :
       LangOthersIdle(r) /\ BeginReorder(r, isArray, orders)
  \/ \E r \in LangReqs : LangCreate(r) \/ LangStep(r)
  \/ CacheExpire


\* ---------------------------------------------------------------- engagement
NoUser == "nouser"
NoSess == "nosess"
NoIp == "noip"

Users == {"u1", "u2"}
Sessions == {"s1"}
Ips == {"ip1"}

ReactTypes == {"like", "dislike"}

Opposite(t) == IF t = "like" THEN "dislike" ELSE "like"

\* The counters of article.engagement that the model keeps by name.
CounterTypes == ReactTypes \cup {"share"}

\* Prioritize: userId > sessionId > IP for deduplication.
Identity(u, s, ip) ==
  IF u # NoUser THEN <<"user", u>>
  ELSE IF s # NoSess THEN <<"session", s>>
  ELSE IF ip # NoIp THEN <<"ip", ip>>
  ELSE <<"none", "none">>

Identities ==
  {<<"user", u>> : u \in Users} \cup {<<"session", s>> : s \in Sessions}
    \cup {<<"ip", i>> : i \in Ips} \cup {<<"none", "none">>}

InitEng ==
  /\ engDocs = {}
  /\ views = 0
  /\ reacts = [t \in CounterTypes |-> 0]
  /\ epc = [r \in EngReqs |-> "idle"]
  /\ eop = [r \in EngReqs |-> "none"]
  /\ euser = [r \in EngReqs |-> NoUser]
  /\ esess = [r \in EngReqs |-> NoSess]
  /\ eip = [r \in EngReqs |-> NoIp]
  /\ efound = [r \in EngReqs |-> 0]
  /\ ehadOpp = [r \in EngReqs |-> FALSE]
  /\ eaction = [r \in EngReqs |-> "none"]
  /\ viewCalls = [i \in Identities |-> 0]
  /\ viewRecs = [i \in Identities |-> 0]
  /\ ecalls = 0

\* A fresh ObjectId: one that no stored document and no handler's local holds.
NewId ==
  LET used == {d.id : d \in engDocs} \cup {efound[r] : r \in EngReqs}
  IN  CHOOSE n \in 1..(Cardinality(used) + 1) : n \notin used

\* A collection without the two unique indexes.
NoUniqueIndex(docs, d) == FALSE

\* The two unique partial indexes of the Engagement collection: one document
\* per (user, article, type) when user is set, one per (sessionId, article,
\* type) when user is null and sessionId is set.  TRUE when inserting d would
\* raise a duplicate-key error.
UniqueConflict(docs, d) ==
  \/ /\ d.user # NoUser
     /\ \E e \in docs : e.user = d.user /\ e.type = d.type
  \/ /\ d.user = NoUser /\ d.sess # NoSess
     /\ \E e \in docs : e.user = NoUser /\ e.sess = d.sess /\ e.type = d.type

\* Engagement.findOne({ user, article, type })
FindReaction(docs, u, t) == {d \in docs : d.user = u /\ d.type = t}

\* trackView with a query that never finds an earlier view.
FindNoRecentView(docs, u, s, ip) == {}

\* trackView's query: a view of the last 24 hours by the same user, else the
\* same anonymous session, else the same anonymous IP.
FindRecentView(docs, u, s, ip) ==
  {d \in docs :
     /\ d.type = "view" /\ d.fresh
     /\ IF u # NoUser THEN d.user = u
        ELSE IF s # NoSess THEN d.sess = s /\ d.user = NoUser
        ELSE d.ip = ip /\ d.user = NoUser}

\* The history of calls counts 0, 1, "2 or more".
CountCall(n) == IF n < 2 THEN n + 1 ELSE n

EngBeginFrame == UNCHANGED <<engDocs, views, reacts, viewCalls, viewRecs>>

\* POST /api/engagement/like|dislike/:articleId: the first findOne.
BeginReact(r, u, t) ==
  /\ UNCHANGED nonEngVars
  /\ ecalls < MaxEngCalls
  /\ ecalls' = ecalls + 1
  /\ epc[r] = "idle"
  /\ eop' = [eop EXCEPT ![r] = t]
  /\ euser' = [euser EXCEPT ![r] = u]
  /\ ehadOpp' = [ehadOpp EXCEPT ![r] = FALSE]
  /\ \/ /\ FindReaction(engDocs, u, t) = {}
        /\ efound' = [efound EXCEPT ![r] = 0]
        /\ epc' = [epc EXCEPT ![r] = "findOpp"]
     \/ \E d \in FindReaction(engDocs, u, t) :
          /\ efound' = [efound EXCEPT ![r] = d.id]
          /\ epc' = [epc EXCEPT ![r] = "delOwn"]
  /\ UNCHANGED <<esess, eip, eaction>>
  /\ EngBeginFrame

\* existingLike.deleteOne(): deletes by _id, a no-op when it is already gone.
ReactDelOwn(r) ==
  /\ UNCHANGED <<nonEngVars, ecalls>>
  /\ epc[r] = "delOwn"
  /\ engDocs' = {d \in engDocs : d.id # efound[r]}
  /\ epc' = [epc EXCEPT ![r] = "decOwn"]
  /\ UNCHANGED <<views, reacts, eop, euser, esess, eip, efound, ehadOpp, eaction,
                 viewCalls, viewRecs>>

\* Article.toggleLike(articleId, false): $inc by -1.
ReactDecOwn(r) ==
  /\ UNCHANGED <<nonEngVars, ecalls>>
  /\ epc[r] = "decOwn"
  /\ reacts' = [reacts EXCEPT ![eop[r]] = @ - 1]
  /\ eaction' = [eaction EXCEPT ![r] = "removed"]
  /\ epc' = [epc EXCEPT ![r] = "done"]
  /\ UNCHANGED <<engDocs, views, eop, euser, esess, eip, efound, ehadOpp,
                 viewCalls, viewRecs>>

\* The findOne of the opposite reaction.
ReactFindOpp(r) ==
  /\ UNCHANGED <<nonEngVars, ecalls>>
  /\ epc[r] = "findOpp"
  /\ \/ /\ FindReaction(engDocs, euser[r], Opposite(eop[r])) = {}
        /\ epc' = [epc EXCEPT ![r] = "create"]
        /\ UNCHANGED <<efound, ehadOpp>>
     \/ \E d \in FindReaction(engDocs, euser[r], Opposite(eop[r])) :
          /\ efound' = [efound EXCEPT ![r] = d.id]
          /\ ehadOpp' = [ehadOpp EXCEPT ![r] = TRUE]
          /\ epc' = [epc EXCEPT ![r] = "delOpp"]
  /\ UNCHANGED <<engDocs, views, reacts, eop, euser, esess, eip, eaction,
                 viewCalls, viewRecs>>

\* The route with the opposite reaction's deleteOne left out.
ReactKeepOpp(r) ==
  /\ UNCHANGED <<nonEngVars, ecalls>>
  /\ epc[r] = "delOpp"
  /\ epc' = [epc EXCEPT ![r] = "decOpp"]
  /\ UNCHANGED <<engDocs, views, reacts, eop, euser, esess, eip, efound, ehadOpp,
                 eaction, viewCalls, viewRecs>>

\* existingDislike.deleteOne()
ReactDelOpp(r) ==
  /\ UNCHANGED <<nonEngVars, ecalls>>
  /\ epc[r] = "delOpp"
  /\ engDocs' = {d \in engDocs : d.id # efound[r]}
  /\ epc' = [epc EXCEPT ![r] = "decOpp"]
  /\ UNCHANGED <<views, reacts, eop, euser, esess, eip, efound, ehadOpp, eaction,
                 viewCalls, viewRecs>>

\* The route with the opposite counter's decrement left out.
ReactNoDecOpp(r) ==
  /\ UNCHANGED <<nonEngVars, ecalls>>
  /\ epc[r] = "decOpp"
  /\ epc' = [epc EXCEPT ![r] = "create"]
  /\ UNCHANGED <<engDocs, views, reacts, eop, euser, esess, eip, efound, ehadOpp,
                 eaction, viewCalls, viewRecs>>

\* Article.toggleDislike(articleId, false)
ReactDecOpp(r) ==
  /\ UNCHANGED <<nonEngVars, ecalls>>
  /\ epc[r] = "decOpp"
  /\ reacts' = [reacts EXCEPT ![Opposite(eop[r])] = @ - 1]
  /\ epc' = [epc EXCEPT ![r] = "create"]
  /\ UNCHANGED <<engDocs, views, eop, euser, esess, eip, efound, ehadOpp, eaction,
                 viewCalls, viewRecs>>

\* Engagement.create({ user, article, type }): a duplicate key throws, and the
\* route's catch answers 500.
ReactCreate(r) ==
  /\ UNCHANGED <<nonEngVars, ecalls>>
  /\ epc[r] = "create" /\ eop[r] \in ReactTypes
  /\ LET d == [id |-> NewId, type |-> eop[r], user |-> euser[r],
               sess |-> NoSess, ip |-> NoIp, fresh |-> TRUE]
     IN  IF UniqueConflict(engDocs, d)
           THEN /\ epc' = [epc EXCEPT ![r] = "failed"]
                /\ eaction' = [eaction EXCEPT ![r] = "error"]
                /\ UNCHANGED engDocs
           ELSE /\ epc' = [epc EXCEPT ![r] = "incOwn"]
                /\ engDocs' = engDocs \cup {d}
                /\ UNCHANGED eaction
  /\ UNCHANGED <<views, reacts, eop, euser, esess, eip, efound, ehadOpp,
                 viewCalls, viewRecs>>

\* Article.toggleLike(articleId, true): $inc by 1.
ReactIncOwn(r) ==
  /\ UNCHANGED <<nonEngVars, ecalls>>
  /\ epc[r] = "incOwn"
  /\ reacts' = [reacts EXCEPT ![eop[r]] = @ + 1]
  /\ eaction' = [eaction EXCEPT ![r] = "added"]
  /\ epc' = [epc EXCEPT ![r] = "done"]
  /\ UNCHANGED <<engDocs, views, eop, euser, esess, eip, efound, ehadOpp,
                 viewCalls, viewRecs>>

\* The response is sent (the final Article.findById only reads).
EngFinish(r) ==
  /\ UNCHANGED <<nonEngVars, ecalls>>
  /\ epc[r] \in {"done", "failed"}
  /\ epc' = [epc EXCEPT ![r] = "idle"]
  /\ eop' = [eop EXCEPT ![r] = "none"]
  /\ euser' = [euser EXCEPT ![r] = NoUser]
  /\ esess' = [esess EXCEPT ![r] = NoSess]
  /\ eip' = [eip EXCEPT ![r] = NoIp]
  /\ efound' = [efound EXCEPT ![r] = 0]
  /\ ehadOpp' = [ehadOpp EXCEPT ![r] = FALSE]
  /\ eaction' = [eaction EXCEPT ![r] = "none"]
  /\ UNCHANGED <<engDocs, views, reacts, viewCalls, viewRecs>>

ReactStep(r) ==
  \/ ReactDelOwn(r)
  \/ ReactDecOwn(r)
  \/ ReactFindOpp(r)
  \/ ReactDelOpp(r)
  \/ ReactDecOpp(r)
  \/ ReactCreate(r)
  \/ ReactIncOwn(r)
  \/ EngFinish(r)

EngOthersIdle(r) == \A q \in EngReqs \ {r} : epc[q] = "idle"

EngQuiescent == \A r \in EngReqs : epc[r] \in {"idle", "done", "failed"}

\* Likes and dislikes, requests interleaved at their awaits.
NextReact ==
  \/ \E r \in EngReqs, u \in Users, t \in ReactTypes : BeginReact(r, u, t)
  \/ \E r \in EngReqs : ReactStep(r)

\* Likes and dislikes, one request at a time.
NextReactSeq ==
  \/ \E r \in EngReqs, u \in Users, t \in ReactTypes :
       EngOthersIdle(r) /\ BeginReact(r, u, t)
  \/ \E r \in EngReqs : ReactStep(r)

\* POST /api/engagement/view/:articleId: trackView up to its findOne.  With
\* no identifier at all the view is always counted.
BeginView(r, u, s, ip) ==
  /\ UNCHANGED nonEngVars
  /\ ecalls < MaxEngCalls
  /\ ecalls' = ecalls + 1
  /\ epc[r] = "idle"
  /\ eop' = [eop EXCEPT ![r] = "view"]
  /\ euser' = [euser EXCEPT ![r] = u]
  /\ esess' = [esess EXCEPT ![r] = s]
  /\ eip' = [eip EXCEPT ![r] = ip]
  /\ IF Identity(u, s, ip) # <<"none", "none">> /\ FindRecentView(engDocs, u, s, ip) # {}
       THEN /\ epc' = [epc EXCEPT ![r] = "done"]
            /\ eaction' = [eaction EXCEPT ![r] = "duplicate"]
            /\ viewCalls' = [viewCalls EXCEPT ![Identity(u, s, ip)] = CountCall(@)]
       ELSE /\ epc' = [epc EXCEPT ![r] = "create"]
            /\ UNCHANGED <<eaction, viewCalls>>
  /\ UNCHANGED <<engDocs, views, reacts, efound, ehadOpp, viewRecs>>

\* trackView's Engagement.create: a duplicate key throws, and the route's
\* catch answers 500 without incrementing.
ViewCreate(r) ==
  /\ UNCHANGED <<nonEngVars, ecalls>>
  /\ epc[r] = "create" /\ eop[r] = "view"
  /\ LET d == [id |-> NewId, type |-> "view", user |-> euser[r],
               sess |-> esess[r], ip |-> eip[r], fresh |-> TRUE]
     IN  IF UniqueConflict(engDocs, d)
           THEN /\ epc' = [epc EXCEPT ![r] = "failed"]
                /\ eaction' = [eaction EXCEPT ![r] = "error"]
                /\ viewCalls' = [viewCalls EXCEPT
                                   ![Identity(euser[r], esess[r], eip[r])] = CountCall(@)]
                /\ UNCHANGED engDocs
           ELSE /\ epc' = [epc EXCEPT ![r] = "incViews"]
                /\ engDocs' = engDocs \cup {d}
                /\ UNCHANGED <<eaction, viewCalls>>
  /\ UNCHANGED <<views, reacts, eop, euser, esess, eip, efound, ehadOpp, viewRecs>>

\* Article.incrementViews(articleId): $inc by 1; the response says recorded.
ViewIncrement(r) ==
  /\ UNCHANGED <<nonEngVars, ecalls>>
  /\ epc[r] = "incViews"
  /\ views' = views + 1
  /\ eaction' = [eaction EXCEPT ![r] = "recorded"]
  /\ epc' = [epc EXCEPT ![r] = "done"]
  /\ viewCalls' = [viewCalls EXCEPT ![Identity(euser[r], esess[r], eip[r])] = CountCall(@)]
  /\ viewRecs' = [viewRecs EXCEPT ![Identity(euser[r], esess[r], eip[r])] = @ + 1]
  /\ UNCHANGED <<engDocs, reacts, eop, euser, esess, eip, efound, ehadOpp>>

\* More than 24 hours pass with no request in flight: every stored view is
\* now older than trackView's window, and a new window starts.
DayPasses ==
  /\ UNCHANGED <<nonEngVars, ecalls>>
  /\ \A r \in EngReqs : epc[r] = "idle"
  /\ \E d \in engDocs : d.fresh
  /\ engDocs' = {[d EXCEPT !.fresh = FALSE] : d \in engDocs}
  /\ viewCalls' = [i \in Identities |-> 0]
  /\ viewRecs' = [i \in Identities |-> 0]
  /\ UNCHANGED <<views, reacts, epc, eop, euser, esess, eip, efound, ehadOpp, eaction>>

ViewStep(r) ==
  \/ ViewCreate(r)
  \/ ViewIncrement(r)
  \/ EngFinish(r)

\* Views, requests interleaved at their awaits.
NextView ==
  \/ \E r \in EngReqs, u \in Users \cup {NoUser}, s \in Sessions \cup {NoSess},
        ip \in Ips \cup {NoIp} : BeginView(r, u, s, ip)
  \/ \E r \in EngReqs : ViewStep(r)
  \/ DayPasses

\* Views, one request at a time.
NextViewSeq ==
  \/ \E r \in EngReqs, u \in Users \cup {NoUser}, s \in Sessions \cup {NoSess},
        ip \in Ips \cup {NoIp} : EngOthersIdle(r) /\ BeginView(r, u, s, ip)
  \/ \E r \in EngReqs : ViewStep(r)
  \/ DayPasses

\* POST /api/engagement/share/:articleId through its Engagement.create: a
\* duplicate key is ignored ('Share already recorded').
BeginShare(r, u) ==
  /\ UNCHANGED nonEngVars
  /\ ecalls < MaxEngCalls
  /\ ecalls' = ecalls + 1
  /\ epc[r] = "idle"
  /\ eop' = [eop EXCEPT ![r] = "share"]
  /\ euser' = [euser EXCEPT ![r] = u]
  /\ LET d == [id |-> NewId, type |-> "share", user |-> u,
               sess |-> NoSess, ip |-> NoIp, fresh |-> TRUE]
     IN  IF UniqueConflict(engDocs, d)
           THEN /\ epc' = [epc EXCEPT ![r] = "done"]
                /\ eaction' = [eaction EXCEPT ![r] = "duplicate"]
                /\ UNCHANGED engDocs
           ELSE /\ epc' = [epc EXCEPT ![r] = "incShares"]
                /\ engDocs' = engDocs \cup {d}
                /\ UNCHANGED eaction
  /\ UNCHANGED <<views, reacts, esess, eip, efound, ehadOpp, viewCalls, viewRecs>>

\* Article.findByIdAndUpdate(articleId, { $inc: { 'engagement.shares': 1 } })
ShareIncrement(r) ==
  /\ UNCHANGED <<nonEngVars, ecalls>>
  /\ epc[r] = "incShares"
  /\ reacts' = [reacts EXCEPT !["share"] = @ + 1]
  /\ eaction' = [eaction EXCEPT ![r] = "recorded"]
  /\ epc' = [epc EXCEPT ![r] = "done"]
  /\ UNCHANGED <<engDocs, views, eop, euser, esess, eip, efound, ehadOpp,
                 viewCalls, viewRecs>>

\* POST /api/engagement/bookmark/:articleId: toggleEngagement up to its
\* findOne.
BeginBookmark(r, u) ==
  /\ UNCHANGED nonEngVars
  /\ ecalls < MaxEngCalls
  /\ ecalls' = ecalls + 1
  /\ epc[r] = "idle"
  /\ eop' = [eop EXCEPT ![r] = "bookmark"]
  /\ euser' = [euser EXCEPT ![r] = u]
  /\ \/ /\ FindReaction(engDocs, u, "bookmark") = {}
        /\ efound' = [efound EXCEPT ![r] = 0]
        /\ epc' = [epc EXCEPT ![r] = "createMark"]
     \/ \E d \in FindReaction(engDocs, u, "bookmark") :
          /\ efound' = [efound EXCEPT ![r] = d.id]
          /\ epc' = [epc EXCEPT ![r] = "delMark"]
  /\ UNCHANGED <<esess, eip, ehadOpp, eaction>>
  /\ EngBeginFrame

\* toggleEngagement: existing.deleteOne()
BookmarkDelete(r) ==
  /\ UNCHANGED <<nonEngVars, ecalls>>
  /\ epc[r] = "delMark"
  /\ engDocs' = {d \in engDocs : d.id # efound[r]}
  /\ eaction' = [eaction EXCEPT ![r] = "removed"]
  /\ epc' = [epc EXCEPT ![r] = "done"]
  /\ UNCHANGED <<views, reacts, eop, euser, esess, eip, efound, ehadOpp,
                 viewCalls, viewRecs>>

\* toggleEngagement: this.create({ user, article, type }); a duplicate key
\* throws, and the route's catch answers 500.
BookmarkCreate(r) ==
  /\ UNCHANGED <<nonEngVars, ecalls>>
  /\ epc[r] = "createMark"
  /\ LET d == [id |-> NewId, type |-> "bookmark", user |-> euser[r],
               sess |-> NoSess, ip |-> NoIp, fresh |-> TRUE]
     IN  IF UniqueConflict(engDocs, d)
           THEN /\ epc' = [epc EXCEPT ![r] = "failed"]
                /\ eaction' = [eaction EXCEPT ![r] = "error"]
                /\ UNCHANGED engDocs
           ELSE /\ epc' = [epc EXCEPT ![r] = "done"]
                /\ eaction' = [eaction EXCEPT ![r] = "added"]
                /\ engDocs' = engDocs \cup {d}
  /\ UNCHANGED <<views, reacts, eop, euser, esess, eip, efound, ehadOpp,
                 viewCalls, viewRecs>>

\* Every engagement route, requests interleaved at their awaits.
NextEng ==
  \/ \E r \in EngReqs, u \in Users, t \in ReactTypes : BeginReact(r, u, t)
  \/ \E r \in EngReqs, u \in Users \cup {NoUser}, s \in Sessions \cup {NoSess},
        ip \in Ips \cup {NoIp} : BeginView(r, u, s, ip)
  \/ \E r \in EngReqs, u \in Users : BeginShare(r, u)
  \/ \E r \in EngReqs, u \in Users : BeginBookmark(r, u)
  \/ \E r \in EngReqs :
       \/ ReactDelOwn(r) \/ ReactDecOwn(r) \/ ReactFindOpp(r) \/ ReactDelOpp(r)
       \/ ReactDecOpp(r) \/ ReactCreate(r) \/ ReactIncOwn(r)
       \/ ViewCreate(r) \/ ViewIncrement(r)
       \/ ShareIncrement(r) \/ BookmarkDelete(r) \/ BookmarkCreate(r)
       \/ EngFinish(r)
  \/ DayPasses

\* -------------------------------------------------------------- localization
\* JavaScript values: undefined, or a string (a sequence of characters).
Undefined == [t |-> "undefined"]
Pending == [t |-> "pending"]
Str(chars) == [t |-> "string", s |-> chars]

Texts == {<<>>, <<"a">>, <<"b", "c">>}

\* What a client may ask for: the seeded languages and an unsupported code.
RequestLangs == LangCodes \cup {"fr"}

\* A multilingual field: its entries in insertion order, the keys distinct.
EntrySeqs ==
  {e \in UNION {[1..n -> [k : LangCodes, v : Texts]] : n \in 0..MaxEntries} :
     \A i, j \in 1..Len(e) : i # j => e[i].k # e[j].k}

\* A field value: absent, a plain string, a Mongoose Map, or a plain object
\* (a lean query, or JSON on the client).
FieldValues ==
  {[kind |-> "absent"]}
    \cup {[kind |-> "string", str |-> t] : t \in Texts}
    \cup {[kind |-> k, entries |-> e] : k \in {"map", "object"}, e \in EntrySeqs}

Truthy(v) == v.t = "string" /\ v.s # <<>>

\* a || b
JsOr(a, b) == IF Truthy(a) THEN a ELSE b

\* field.get(key) of a Map, field[key] of a plain object.
Lookup(entries, key) ==
  IF \E i \in 1..Len(entries) : entries[i].k = key
    THEN Str(entries[CHOOSE i \in 1..Len(entries) : entries[i].k = key].v)
    ELSE Undefined

\* [...field.values()][0], Object.values(field)[0]
FirstValue(entries) == IF Len(entries) > 0 THEN Str(entries[1].v) ELSE Undefined

\* Object.values(str)[0] of a string: its first character.
FirstChar(str) == IF Len(str) > 0 THEN Str(<<str[1]>>) ELSE Undefined

\* !field
Falsy(field) ==
  field.kind = "absent" \/ (field.kind = "string" /\ field.str = <<>>)

\* The helper with the fallback language left out of the chain.
getLocalizedValueNoFallback(field, lang, fallbackLang) ==
  IF Falsy(field) THEN Str(<<>>)
  ELSE IF field.kind = "string" THEN JsOr(FirstChar(field.str), Str(<<>>))
  ELSE JsOr(Lookup(field.entries, lang), JsOr(FirstValue(field.entries), Str(<<>>)))

\* Backend getLocalizedValue.  A string is neither falsy nor a Map: it takes
\* the plain-object branch, where field[lang] of a string is undefined for a
\* language code and Object.values gives its characters.
getLocalizedValue(field, lang, fallbackLang) ==
  IF Falsy(field) THEN Str(<<>>)
  ELSE IF field.kind = "map"
    THEN JsOr(Lookup(field.entries, lang),
           JsOr(Lookup(field.entries, fallbackLang),
             JsOr(FirstValue(field.entries), Str(<<>>))))
  ELSE IF field.kind = "string"
    THEN JsOr(Undefined, JsOr(Undefined, JsOr(FirstChar(field.str), Str(<<>>))))
  ELSE JsOr(Lookup(field.entries, lang),
         JsOr(Lookup(field.entries, fallbackLang),
           JsOr(FirstValue(field.entries), Str(<<>>))))

\* Frontend getLocalizedValue (languageService.js).
getLocalizedValueFrontend(field, lang, fallbackLang) ==
  IF Falsy(field) THEN Str(<<>>)
  ELSE IF field.kind = "string" THEN Str(field.str)
  ELSE JsOr(Lookup(field.entries, lang),
         JsOr(Lookup(field.entries, fallbackLang),
           JsOr(FirstValue(field.entries), Str(<<>>))))

\* The endpoints that answer with a localized article title.
TitleEndpoints == {"feed", "nearby", "trending", "slug", "manage", "bookmarks"}

\* The title an endpoint puts in its response for a stored title (a plain
\* object: every one of these queries is lean or an aggregate).  Bookmarks
\* does not use the helper: article.title[lang] || article.title.en.
EndpointTitle(e, title, lang, defaultLang) ==
  IF e = "bookmarks"
    THEN JsOr(Lookup(title.entries, lang), Lookup(title.entries, "en"))
    ELSE getLocalizedValue(title, lang, defaultLang)

\* No helper call under way: the other specifications leave these alone.
InitLocIdle ==
  /\ locField = [kind |-> "absent"]
  /\ locLang = "en"
  /\ locDefault = "en"
  /\ beOut = Pending
  /\ feOut = Pending
  /\ epName = "none"
  /\ epOut = Pending

\* The inputs of the helpers: any field value, requested language and default.
InitLoc ==
  /\ locField \in FieldValues
  /\ locLang \in RequestLangs
  /\ locDefault \in LangCodes
  /\ beOut = Pending
  /\ feOut = Pending
  /\ epName = "none"
  /\ epOut = Pending

\* The backend helper is applied to the field.
CallBackend ==
  /\ UNCHANGED nonLocVars
  /\ beOut = Pending
  /\ beOut' = getLocalizedValue(locField, locLang, locDefault)
  /\ UNCHANGED <<locField, locLang, locDefault, feOut, epName, epOut>>

\* The frontend helper is applied to the field (JSON carries no Map).
CallFrontend ==
  /\ UNCHANGED nonLocVars
  /\ feOut = Pending
  /\ locField.kind # "map"
  /\ feOut' = getLocalizedValueFrontend(locField, locLang, locDefault)
  /\ UNCHANGED <<locField, locLang, locDefault, beOut, epName, epOut>>

\* An endpoint answers for an article whose stored title is the field.
ServeTitle(e) ==
  /\ UNCHANGED nonLocVars
  /\ epName = "none"
  /\ locField.kind = "object"
  /\ epName' = e
  /\ epOut' = EndpointTitle(e, locField, locLang, locDefault)
  /\ UNCHANGED <<locField, locLang, locDefault, beOut, feOut>>

NextLoc ==
  \/ CallBackend
  \/ CallFrontend
  \/ \E e \in TitleEndpoints : ServeTitle(e)

\* ------------------------------------------------------------------ articles
ArtReqs == 1..MaxArtReqs

ArtUsers == {"rep1", "adm1"}

\* req.user.role
Role(u) == IF u = "adm1" THEN "admin" ELSE IF u = "rep1" THEN "reporter" ELSE "user"

Statuses == {"draft", "pending", "published", "archived"}

NoDate == 0 - 1

\* new Map(Object.entries(obj)) for a body object with the keys te and en, in
\* that order; Undefined stands for a key the object does not have.
MkMap(tv, ev) ==
  (IF tv = Undefined THEN <<>> ELSE <<[k |-> "te", v |-> tv.s]>>)
    \o (IF ev = Undefined THEN <<>> ELSE <<[k |-> "en", v |-> ev.s]>>)

\* A field of a request body: absent, or an object of language entries.
NoField == [set |-> FALSE, entries |-> <<>>]

Field(entries) == [set |-> TRUE, entries |-> entries]

\* Bodies whose multilingual fields vary: each entry missing, blank or text
\* ("#" stands for a letter outside ASCII, as in a Telugu title).
FieldMaps ==
  {MkMap(t, e) : t \in {Undefined, Str(<<" ">>), Str(<<"#">>)},
                 e \in {Undefined, Str(<<"a">>)}}

FieldBodies ==
  {[title |-> Field(t), summary |-> Field(s), content |-> Field(c), status |-> "absent"] :
     t \in FieldMaps, s \in FieldMaps, c \in FieldMaps}

\* Bodies whose titles vary, several of them with the same English slug.
TitleMaps ==
  {MkMap(t, e) : t \in {Str(<<"#">>)},
                 e \in {Undefined, Str(<<"a">>), Str(<<"A", "!">>), Str(<<" ", "a", " ">>)}}

FullText == MkMap(Str(<<"#">>), Str(<<"a">>))

SlugBodies ==
  {[title |-> Field(t), summary |-> Field(FullText), content |-> Field(FullText),
    status |-> "absent"] : t \in TitleMaps}

\* Bodies that carry a status (schemas.createArticle allows all four).
StatusBodies ==
  {[title |-> Field(FullText), summary |-> Field(FullText), content |-> Field(FullText),
    status |-> s] : s \in Statuses}

\* Bodies of PUT /api/articles/:id: any subset of the keys.
UpdateBodies ==
  {[title |-> t, summary |-> NoField, content |-> NoField, status |-> s] :
     t \in {NoField, Field(MkMap(Undefined, Str(<<"a">>))), Field(MkMap(Str(<<"#">>), Undefined))},
     s \in Statuses \cup {"absent"}}

IdleArt ==
  [pc |-> "idle", op |-> "none", user |-> "none", id |-> 0,
   body |-> [title |-> NoField, summary |-> NoField, content |-> NoField, status |-> "absent"],
   slug |-> <<>>, before |-> [n |-> 0, cat |-> 0, auth |-> 0, pub |-> NoDate, st |-> "none"]]

InitArt ==
  /\ articles = <<>>
  /\ articleCount = 0
  /\ articlesCount = [u \in ArtUsers |-> 0]
  /\ areq = [r \in ArtReqs |-> IdleArt]
  /\ now = 0
  /\ acalls = 0

\* slugify's character classes over the model's alphabet.
RECURSIVE StripEnds(_, _)
\* .trim() (c a space) and .replace(/^-+/, '').replace(/-+$/, '') (c a hyphen)
StripEnds(s, c) ==
  IF s # <<>> /\ Head(s) = c THEN StripEnds(Tail(s), c)
  ELSE IF s # <<>> /\ s[Len(s)] = c THEN StripEnds(SubSeq(s, 1, Len(s) - 1), c)
  ELSE s

RECURSIVE SquashRuns(_, _, _)
\* .replace(/\s+/g, '-') (runs of c become one rep) and .replace(/\-\-+/g, '-')
SquashRuns(s, c, rep) ==
  IF s = <<>> THEN <<>>
  ELSE IF Head(s) = c
    THEN IF Len(s) > 1 /\ s[2] = c
           THEN SquashRuns(Tail(s), c, rep)
           ELSE <<rep>> \o SquashRuns(Tail(s), c, rep)
    ELSE <<Head(s)>> \o SquashRuns(Tail(s), c, rep)

\* utils/slugify: lower case, trim, spaces to hyphens, drop what is not a word
\* character or a hyphen, squash hyphens, strip hyphens at both ends.
slugify(text) ==
  LET low == [i \in 1..Len(text) |-> IF text[i] = "A" THEN "a" ELSE text[i]]
      hyph == SquashRuns(StripEnds(low, " "), " ", "-")
      word == SelectSeq(hyph, LAMBDA c : c \in {"a", "b", "-"})
  IN  StripEnds(SquashRuns(word, "-", "-"), "-")

\* `${slug}-${Date.now()}`
Stamped(slug, t) == slug \o <<"-", <<"t0", "t1", "t2", "t3", "t4">>[t + 1]>>

\* A validator that asks for some entry, whatever its language.
validateAnyLanguage(map, defaultLang) == Len(map) > 0

\* validateDefaultLanguage, given the code getDefaultLanguageCode returned.
validateDefaultLanguage(map, defaultLang) ==
  /\ Len(map) > 0
  /\ Lookup(map, defaultLang) # Undefined
  /\ StripEnds(Lookup(map, defaultLang).s, " ") # <<>>

cacheVars == <<cachedLanguages, cacheSet, defaultLanguage, lastRefresh>>

\* What an article request leaves alone outside the articles and the cache.
readFrame ==
  <<engVars, locVars, catVars, comVars, usrVars,
    langs, lpc, lop, ltarget, lsnap, ldoc, lread, lcalls>>

artFrame == <<readFrame, served>>

\* languageCache.getDefaultLanguageCode(): refreshes the cache first when
\* needsRefresh() says so (no language write is in flight while it does).
getDefaultLanguageCode(code) ==
  IF ~cacheSet \/ lastRefresh # "fresh"
    THEN \E list \in FindActiveSorted(langs) :
           /\ cachedLanguages' = list
           /\ cacheSet' = TRUE
           /\ defaultLanguage' = PickDefault(list)
           /\ lastRefresh' = "fresh"
           /\ code = PickDefault(list)
    ELSE /\ UNCHANGED cacheVars
         /\ code = defaultLanguage

\* The snapshot a request takes for its response, and the handler's start.
ArtStart(r, op, u, id, body, pc) ==
  /\ acalls < MaxArtCalls
  /\ acalls' = acalls + 1
  /\ areq[r].pc = "idle"
  /\ areq' = [areq EXCEPT ![r] =
       [pc |-> pc, op |-> op, user |-> u, id |-> id, body |-> body, slug |-> <<>>,
        before |-> [n |-> Len(articles), cat |-> articleCount, auth |-> articlesCount[u],
                    pub |-> IF id \in 1..Len(articles) THEN articles[id].publishedAt
                            ELSE NoDate,
                    st |-> IF id \in 1..Len(articles) THEN articles[id].status
                           ELSE "none"]]]
  /\ UNCHANGED <<articles, articleCount, articlesCount, now, cacheVars, artFrame>>

\* POST /api/articles: the Joi schema (title and content required), then
\* Category.findById.
BeginCreateArticle(r, u, body) ==
  ArtStart(r, "create", u, 0, body,
           IF body.title.set /\ body.content.set THEN "validate" ELSE "rejected")

\* PUT /api/articles/:id: findById, then the reporter's ownership check.
BeginUpdateArticle(r, u, id, body) ==
  ArtStart(r, "update", u, id, body,
           IF id \notin 1..Len(articles) THEN "rejected"
           ELSE IF Role(u) = "reporter" /\ articles[id].author # u THEN "rejected"
           ELSE "validate")

\* The status route without its allow-list of statuses.
BeginSetAnyStatus(r, u, id, status) ==
  ArtStart(r, "status", u, id, [IdleArt.body EXCEPT !.status = status],
           IF Role(u) # "admin" THEN "rejected" ELSE "write")

\* PUT /api/articles/:id/status: adminOnly, then the allow-list of statuses.
BeginSetStatus(r, u, id, status) ==
  ArtStart(r, "status", u, id, [IdleArt.body EXCEPT !.status = status],
           IF Role(u) # "admin" \/ status \notin Statuses THEN "rejected" ELSE "write")

\* DELETE /api/articles/:id: adminOnly; archives the article.
BeginArchive(r, u, id) ==
  ArtStart(r, "archive", u, id, [IdleArt.body EXCEPT !.status = "archived"],
           IF Role(u) # "admin" THEN "rejected" ELSE "write")

\* Document validation (create) and update validators (runValidators: true):
\* validateDefaultLanguage on every multilingual field that is set; on create
\* all three are set, a missing summary being an empty Map.
ArtValidate(r) ==
  /\ areq[r].pc = "validate"
  /\ \E code \in LangCodes :
       /\ getDefaultLanguageCode(code)
       /\ LET b == areq[r].body
              checked(f) == (areq[r].op = "create" \/ f.set)
                              => validateDefaultLanguage(f.entries, code)
              ok == checked(b.title) /\ checked(b.summary) /\ checked(b.content)
          IN  areq' = [areq EXCEPT ![r].pc =
                IF ~ok THEN "failed"
                ELSE IF areq[r].op = "create" THEN "slug" ELSE "write"]
  /\ UNCHANGED <<articles, articleCount, articlesCount, now, acalls, artFrame>>

\* articleSchema.pre('save'), up to its findOne: the slug of a new document
\* from the English title, else from the default language's title and the time.
ArtSlug(r) ==
  /\ areq[r].pc = "slug"
  /\ LET title == areq[r].body.title.entries
     IN  IF Truthy(Lookup(title, "en"))
           THEN /\ areq' = [areq EXCEPT ![r].pc = "slugCheck",
                                        ![r].slug = slugify(Lookup(title, "en").s)]
                /\ UNCHANGED cacheVars
           ELSE \E code \in LangCodes :
                  /\ getDefaultLanguageCode(code)
                  /\ LET inDefault == JsOr(Lookup(title, code), FirstValue(title))
                         base == IF Truthy(inDefault) /\ slugify(inDefault.s) # <<>>
                                   THEN slugify(inDefault.s) ELSE <<"article">>
                     IN  areq' = [areq EXCEPT ![r].pc = "slugCheck",
                                              ![r].slug = Stamped(base, now)]
  /\ UNCHANGED <<articles, articleCount, articlesCount, now, acalls, artFrame>>

\* The hook's findOne({ slug }) has answered: a taken slug gets the time
\* appended.
ArtSlugCheck(r) ==
  /\ areq[r].pc = "slugCheck"
  /\ areq' = [areq EXCEPT
       ![r].pc = "insert",
       ![r].slug = IF \E i \in 1..Len(articles) : articles[i].slug = @
                     THEN Stamped(@, now) ELSE @]
  /\ UNCHANGED <<articles, articleCount, articlesCount, now, acalls, cacheVars, artFrame>>

\* The insert of Article.create: the publishedAt hook has run (a new document
\* with status published gets the time), the unique index on slug decides.
ArtInsert(r) ==
  /\ areq[r].pc = "insert"
  /\ LET b == areq[r].body
         st == IF b.status = "absent" THEN "draft" ELSE b.status
         doc == [title |-> b.title.entries, summary |-> b.summary.entries,
                 content |-> b.content.entries, slug |-> areq[r].slug,
                 status |-> st, author |-> areq[r].user,
                 publishedAt |-> IF st = "published" THEN now ELSE NoDate,
                 publishedBy |-> IF st = "published" THEN areq[r].user ELSE "none"]
     IN  IF \E i \in 1..Len(articles) : articles[i].slug = doc.slug
           THEN /\ areq' = [areq EXCEPT ![r].pc = "failed"]
                /\ UNCHANGED articles
           ELSE /\ areq' = [areq EXCEPT ![r].pc = "incCategory", ![r].id = Len(articles) + 1]
                /\ articles' = Append(articles, doc)
  /\ UNCHANGED <<articleCount, articlesCount, now, acalls, cacheVars, artFrame>>

\* Category.findByIdAndUpdate(category, { $inc: { articleCount: 1 } })
ArtIncCategory(r) ==
  /\ areq[r].pc = "incCategory"
  /\ articleCount' = articleCount + 1
  /\ areq' = [areq EXCEPT ![r].pc = "incAuthor"]
  /\ UNCHANGED <<articles, articlesCount, now, acalls, cacheVars, artFrame>>

\* User.findByIdAndUpdate(req.user._id, { $inc: { articlesCount: 1 } })
ArtIncAuthor(r) ==
  /\ areq[r].pc = "incAuthor"
  /\ articlesCount' = [articlesCount EXCEPT ![areq[r].user] = @ + 1]
  /\ areq' = [areq EXCEPT ![r].pc = "done"]
  /\ UNCHANGED <<articles, articleCount, now, acalls, cacheVars, artFrame>>

\* The findByIdAndUpdate of the update, status and delete routes: one atomic
\* write, no save hook.  The status route writes publishedAt: new Date() for
\* published and publishedAt: undefined otherwise, which Mongoose drops from
\* the update or turns into null, depending on its version.
ArtWrite(r) ==
  /\ areq[r].pc = "write"
  /\ LET q == areq[r]
         b == q.body
     IN  IF q.id \notin 1..Len(articles)
           THEN /\ areq' = [areq EXCEPT ![r].pc = "rejected"]
                /\ UNCHANGED articles
           ELSE \E dropped \in BOOLEAN :
                  /\ areq' = [areq EXCEPT ![r].pc = "done"]
                  /\ articles' = [articles EXCEPT ![q.id] =
                       [@ EXCEPT
                          !.title = IF b.title.set THEN b.title.entries ELSE @,
                          !.summary = IF b.summary.set THEN b.summary.entries ELSE @,
                          !.content = IF b.content.set THEN b.content.entries ELSE @,
                          !.status = IF b.status = "absent" THEN @ ELSE b.status,
                          !.publishedAt =
                             IF q.op # "status" THEN @
                             ELSE IF b.status = "published" THEN now
                             ELSE IF dropped THEN @ ELSE NoDate,
                          !.publishedBy =
                             IF b.status = "absent" THEN @
                             ELSE IF b.status # "published" THEN "none"
                             ELSE IF articles[q.id].status = "published" THEN @
                             ELSE q.user]]
  /\ UNCHANGED <<articleCount, articlesCount, now, acalls, cacheVars, artFrame>>

\* The response is sent; the request's locals are gone.
ArtFinish(r) ==
  /\ areq[r].pc \in {"done", "failed", "rejected"}
  /\ areq' = [areq EXCEPT ![r] = IdleArt]
  /\ UNCHANGED <<articles, articleCount, articlesCount, now, acalls, cacheVars, artFrame>>

\* A millisecond passes.
Tick ==
  /\ now < MaxClock
  /\ now' = now + 1
  /\ UNCHANGED <<articles, articleCount, articlesCount, areq, acalls, cacheVars, artFrame>>

CreateStep(r) ==
  \/ ArtValidate(r)
  \/ ArtSlug(r)
  \/ ArtSlugCheck(r)
  \/ ArtInsert(r)
  \/ ArtIncCategory(r)
  \/ ArtIncAuthor(r)
  \/ ArtFinish(r)

\* No request of any kind is in flight.
AllIdle ==
  /\ \A q \in ArtReqs : areq[q].pc = "idle"
  /\ \A q \in LangReqs : lpc[q] = "idle"

\* Articles and changes of the default language, one request at a time.
NextArtSeq ==
  \/ AllIdle /\ \E r \in ArtReqs, b \in FieldBodies : BeginCreateArticle(r, "rep1", b)
  \/ AllIdle /\ \E r \in ArtReqs, u \in ArtUsers, id \in 1..MaxArtCalls, b \in UpdateBodies :
                  BeginUpdateArticle(r, u, id, b)
  \/ \E r \in ArtReqs : CreateStep(r) \/ ArtWrite(r)
  \/ AllIdle /\ \E r \in LangReqs, c \in LangCodes : BeginSetDefault(r, c)
  \/ \E r \in LangReqs : LangStep(r)

\* Articles and their statuses, one request at a time.
NextPublish ==
  \/ AllIdle /\ \E r \in ArtReqs, u \in ArtUsers, b \in StatusBodies :
                  BeginCreateArticle(r, u, b)
  \/ AllIdle /\ \E r \in ArtReqs, u \in ArtUsers, id \in 1..MaxArtCalls, b \in UpdateBodies :
                  BeginUpdateArticle(r, u, id, b)
  \/ AllIdle /\ \E r \in ArtReqs, u \in ArtUsers, id \in 1..MaxArtCalls,
                    s \in Statuses \cup {"deleted"} : BeginSetStatus(r, u, id, s)
  \/ AllIdle /\ \E r \in ArtReqs, u \in ArtUsers, id \in 1..MaxArtCalls :
                  BeginArchive(r, u, id)
  \/ \E r \in ArtReqs : CreateStep(r) \/ ArtWrite(r)
  \/ Tick

\* Article creations, interleaved at their awaits.
NextArt ==
  \/ \E r \in ArtReqs, b \in SlugBodies : BeginCreateArticle(r, "rep1", b)
  \/ \E r \in ArtReqs : CreateStep(r)
  \/ Tick

\* ------------------------------------------------------- cities and categories
AdminReqs == 1..MaxAdminReqs

\* The slug of a document saved without one: the unique index sees null.
NoSlug == <<"null">>

NameMaps ==
  {MkMap(t, e) : t \in {Undefined, Str(<<"#">>)}, e \in {Undefined, Str(<<"a">>), Str(<<"A", "!">>)}}

StateMaps == {MkMap(Str(<<"#">>), e) : e \in {Undefined, Str(<<"b">>)}}

IdleAdmin ==
  [pc |-> "idle", op |-> "none", id |-> 0, name |-> NoField, state |-> NoField,
   parent |-> 0, slug |-> NoSlug, ancestors |-> <<>>, level |-> 0]

InitCat ==
  /\ cities = <<>>
  /\ cats = <<>>
  /\ kreq = [r \in AdminReqs |-> IdleAdmin]
  /\ kcalls = 0

\* What a city or category request leaves alone outside its collections and
\* the cache.
catFrame ==
  <<engVars, locVars, artVars, restVars,
    langs, lpc, lop, ltarget, lsnap, ldoc, lread, lcalls>>

\* The start of an admin request: Joi has passed, document validation runs
\* validateDefaultLanguage on the fields that are set.
AdminStart(r, op, id, name, state, parent, next) ==
  /\ kcalls < MaxCatCalls
  /\ kcalls' = kcalls + 1
  /\ kreq[r].pc = "idle"
  /\ \E code \in LangCodes :
       /\ getDefaultLanguageCode(code)
       /\ kreq' = [kreq EXCEPT ![r] =
            [IdleAdmin EXCEPT
               !.op = op, !.id = id, !.name = name, !.state = state, !.parent = parent,
               !.pc = IF /\ name.set => validateDefaultLanguage(name.entries, code)
                         /\ state.set => validateDefaultLanguage(state.entries, code)
                       THEN next ELSE "failed"]]
  /\ UNCHANGED <<cities, cats, catFrame>>

\* POST /api/locations/cities, up to the slug hook's findOne.
BeginCreateCity(r, name, state) ==
  AdminStart(r, "city", 0, Field(name), Field(state), 0, "slug")

\* citySchema.pre('save'): the slug from the English name; when a city has it
\* already and there is an English state name, the state's slug is appended.
CitySlug(r) ==
  /\ kreq[r].pc = "slug" /\ kreq[r].op = "city"
  /\ LET nameInEnglish == Lookup(kreq[r].name.entries, "en")
         stateInEnglish == Lookup(kreq[r].state.entries, "en")
         slug == slugify(nameInEnglish.s)
     IN  kreq' = [kreq EXCEPT
           ![r].pc = "insert",
           ![r].slug =
              IF ~Truthy(nameInEnglish) THEN NoSlug
              ELSE IF (\E i \in 1..Len(cities) : cities[i].slug = slug) /\ Truthy(stateInEnglish)
                THEN slug \o <<"-">> \o slugify(stateInEnglish.s)
              ELSE slug]
  /\ UNCHANGED <<cities, cats, kcalls, cacheVars, catFrame>>

\* The insert of City.create: the unique index on slug decides (a duplicate
\* key answers 400 'City already exists').
CityInsert(r) ==
  /\ kreq[r].pc = "insert" /\ kreq[r].op = "city"
  /\ IF \E i \in 1..Len(cities) : cities[i].slug = kreq[r].slug
       THEN /\ kreq' = [kreq EXCEPT ![r].pc = "failed"]
            /\ UNCHANGED cities
       ELSE /\ kreq' = [kreq EXCEPT ![r].pc = "done"]
            /\ cities' = Append(cities, [name |-> kreq[r].name.entries,
                                         state |-> kreq[r].state.entries,
                                         slug |-> kreq[r].slug])
  /\ UNCHANGED <<cats, kcalls, cacheVars, catFrame>>

\* The response is sent.
AdminFinish(r) ==
  /\ kreq[r].pc \in {"done", "failed", "rejected"}
  /\ kreq' = [kreq EXCEPT ![r] = IdleAdmin]
  /\ UNCHANGED <<cities, cats, kcalls, cacheVars, catFrame>>

AdminOthersIdle(r) == \A q \in AdminReqs \ {r} : kreq[q].pc = "idle"

\* City creations, one request at a time.
NextCity ==
  \/ \E r \in AdminReqs, n \in NameMaps, s \in StateMaps :
       AdminOthersIdle(r) /\ BeginCreateCity(r, n, s)
  \/ \E r \in AdminReqs : CitySlug(r) \/ CityInsert(r) \/ AdminFinish(r)

\* POST /api/categories, up to the slug hook's findOne.
BeginCreateCategory(r, name, parent) ==
  AdminStart(r, "category", 0, Field(name), NoField, parent, "slug")

\* categorySchema.pre('save'), slug: from the English name, the time appended
\* when a category has it already.
CatSlug(r) ==
  /\ kreq[r].pc = "slug" /\ kreq[r].op = "category"
  /\ LET nameInEnglish == Lookup(kreq[r].name.entries, "en")
         slug == slugify(nameInEnglish.s)
     IN  kreq' = [kreq EXCEPT
           ![r].pc = "ancestors",
           ![r].slug =
              IF ~Truthy(nameInEnglish) THEN NoSlug
              ELSE IF \E i \in 1..Len(cats) : cats[i].slug = slug
                THEN Stamped(slug, now)
              ELSE slug]
  /\ UNCHANGED <<cities, cats, kcalls, cacheVars, catFrame>>

\* categorySchema.pre('save'), ancestors: with a parent that findById finds,
\* the parent's ancestors followed by the parent, and the parent's level + 1;
\* with a parent it does not find the defaults stay; without a parent the
\* array is empty and the level 0.
CatAncestors(r) ==
  /\ kreq[r].pc = "ancestors"
  /\ LET p == kreq[r].parent
     IN  kreq' = [kreq EXCEPT
           ![r].pc = "insert",
           ![r].ancestors =
              IF p \in 1..Len(cats)
                THEN Append(cats[p].ancestors,
                            [id |-> p, name |-> cats[p].name, slug |-> cats[p].slug])
                ELSE <<>>,
           ![r].level = IF p \in 1..Len(cats) THEN cats[p].level + 1 ELSE 0]
  /\ UNCHANGED <<cities, cats, kcalls, cacheVars, catFrame>>

\* The insert of Category.create: the unique index on slug decides.
CatInsert(r) ==
  /\ kreq[r].pc = "insert" /\ kreq[r].op = "category"
  /\ IF \E i \in 1..Len(cats) : cats[i].slug = kreq[r].slug
       THEN /\ kreq' = [kreq EXCEPT ![r].pc = "failed"]
            /\ UNCHANGED cats
       ELSE /\ kreq' = [kreq EXCEPT ![r].pc = "done", ![r].id = Len(cats) + 1]
            /\ cats' = Append(cats, [name |-> kreq[r].name.entries, slug |-> kreq[r].slug,
                                     parent |-> kreq[r].parent,
                                     ancestors |-> kreq[r].ancestors,
                                     level |-> kreq[r].level])
  /\ UNCHANGED <<cities, kcalls, cacheVars, catFrame>>

\* PUT /api/categories/:id, up to its findByIdAndUpdate; parent -1 stands for
\* a body without the key.
BeginUpdateCategory(r, id, name, parent) ==
  AdminStart(r, "update", id, name, NoField, parent, "write")

\* Category.findByIdAndUpdate(id, updates): one atomic write of the keys of
\* the body; no save hook runs, ancestors and level are not among the keys.
CatWrite(r) ==
  /\ kreq[r].pc = "write"
  /\ LET q == kreq[r]
     IN  IF q.id \notin 1..Len(cats)
           THEN /\ kreq' = [kreq EXCEPT ![r].pc = "rejected"]
                /\ UNCHANGED cats
           ELSE /\ kreq' = [kreq EXCEPT ![r].pc = "done"]
                /\ cats' = [cats EXCEPT ![q.id] =
                     [@ EXCEPT !.name = IF q.name.set THEN q.name.entries ELSE @,
                               !.parent = IF q.parent = 0 - 1 THEN @ ELSE q.parent]]
  /\ UNCHANGED <<cities, kcalls, cacheVars, catFrame>>

CatNames == {MkMap(Str(<<"#">>), Str(<<"a">>)), MkMap(Str(<<"#">>), Str(<<"b">>))}

\* The ids a request may name: a stored category's, or one that no category
\* has or will have (ObjectIds are not reused).
CategoryIds == 1..Len(cats) \cup {MaxCatCalls + 1}

\* Category administration, one request at a time.
NextCat ==
  \/ \E r \in AdminReqs, n \in CatNames, p \in 0..(MaxCatCalls + 1) :
       /\ AdminOthersIdle(r) /\ p \in CategoryIds \cup {0}
       /\ BeginCreateCategory(r, n, p)
  \/ \E r \in AdminReqs, id \in 1..(MaxCatCalls + 1),
        n \in {NoField} \cup {Field(m) : m \in CatNames}, p \in (0 - 1)..(MaxCatCalls + 1) :
       /\ AdminOthersIdle(r) /\ id \in CategoryIds /\ p \in CategoryIds \cup {0 - 1, 0}
       /\ BeginUpdateCategory(r, id, n, p)
  \/ \E r \in AdminReqs :
       CatSlug(r) \/ CatAncestors(r) \/ CatInsert(r) \/ CatWrite(r) \/ AdminFinish(r)
  \/ Tick

\* -------------------------------------------------------- public article routes
\* 24 * 60 * 60 * 1000 ms: longer than the stretch of time the clock covers.
OneDay == MaxClock + 1

\* An article as a response carries it.
Returned(i) == [id |-> i, status |-> articles[i].status]

NoResponse == [route |-> "none", articles |-> {}]

InitServed == served = NoResponse

\* Article.find({ status: 'published' }) of the feed, first page.
FindPublished == {i \in 1..Len(articles) : articles[i].status = "published"}

\* GET /api/articles
GetFeed ==
  /\ \E code \in AllCodes : getDefaultLanguageCode(code)
  /\ served' = [route |-> "feed", articles |-> {Returned(i) : i \in FindPublished}]
  /\ UNCHANGED <<artVars, readFrame>>

\* Article.findNearby: $geoNear with query { status: 'published' }; near is
\* the set of articles whose location lies within the distance.
findNearby(near) == {i \in near : articles[i].status = "published"}

\* GET /api/articles/nearby, with lng and lat given.
GetNearby ==
  /\ \E code \in AllCodes : getDefaultLanguageCode(code)
  /\ \E near \in SUBSET (1..Len(articles)) :
       served' = [route |-> "nearby", articles |-> {Returned(i) : i \in findNearby(near)}]
  /\ UNCHANGED <<artVars, readFrame>>

\* GET /api/articles/trending: published within the last day.
GetTrending ==
  /\ \E code \in AllCodes : getDefaultLanguageCode(code)
  /\ served' = [route |-> "trending",
                articles |-> {Returned(i) : i \in
                  {j \in 1..Len(articles) :
                     /\ articles[j].status = "published"
                     /\ articles[j].publishedAt # NoDate
                     /\ articles[j].publishedAt >= now - OneDay}}]
  /\ UNCHANGED <<artVars, readFrame>>

\* GET /api/articles/slug/:slug: the published article of that slug (404 when
\* there is none) and its related articles, published ones other than itself.
GetBySlug(id) ==
  /\ \E code \in AllCodes : getDefaultLanguageCode(code)
  /\ LET found == {i \in 1..Len(articles) :
                     /\ id \in 1..Len(articles)
                     /\ articles[i].slug = articles[id].slug
                     /\ articles[i].status = "published"}
     IN  served' = [route |-> "slug",
                    articles |-> IF found = {} THEN {}
                                 ELSE {Returned(i) : i \in found \cup FindPublished}]
  /\ UNCHANGED <<artVars, readFrame>>

\* GET /api/articles/ref/:articleId: Article.findOne({ articleId }) with no
\* status in the filter. articleSchema declares no articleId path: a Mongoose
\* whose strictQuery is on drops the condition and findOne({}) answers the
\* first stored article; with strictQuery off no document matches (404).
GetByRef ==
  /\ \E strictQuery \in BOOLEAN :
       served' = [route |-> "ref",
                  articles |-> IF strictQuery /\ Len(articles) > 0 THEN {Returned(1)}
                               ELSE {}]
  /\ UNCHANGED <<artVars, cacheVars, readFrame>>

\* Article writes and public reads, one request at a time.
NextRead ==
  \/ AllIdle /\ \E r \in ArtReqs, u \in ArtUsers, b \in StatusBodies :
                  BeginCreateArticle(r, u, b)
  \/ AllIdle /\ \E r \in ArtReqs, u \in ArtUsers, id \in 1..MaxArtCalls,
                    s \in Statuses : BeginSetStatus(r, u, id, s)
  \/ \E r \in ArtReqs : CreateStep(r) \/ ArtWrite(r)
  \/ Tick
  \/ AllIdle /\ GetFeed
  \/ AllIdle /\ GetNearby
  \/ AllIdle /\ GetTrending
  \/ AllIdle /\ \E id \in 1..MaxArtCalls + 1 : GetBySlug(id)
  \/ AllIdle /\ GetByRef

\* ------------------------------------------------------------------ comments
\* Number of comment requests that may be in flight together.
MaxComReqs == 2

\* Comment requests served in one behaviour.
MaxComCalls == 3

ComReqs == 1..MaxComReqs

\* Accounts that comment: a reader, a second reader and a reporter.
ComUsers == {"u1", "u2", "rep1"}

CommentStatuses == {"pending", "approved", "flagged", "deleted"}

\* req.params.commentId: a stored comment or an id that names none.
CommentIds == 1..MaxComCalls \cup {MaxComCalls + 1}

\* Comment.create({article, user, content, parent, status: 'approved'}) with
\* the schema defaults; old stands for createdAt lying more than ten minutes back.
NewComment(u, parent) ==
  [user |-> u, parent |-> parent, status |-> "approved", likes |-> 0, likedBy |-> {},
   isEdited |-> FALSE, old |-> FALSE]

IdleCom ==
  [pc |-> "idle", op |-> "none", user |-> "none", id |-> 0, status |-> "none",
   alreadyLiked |-> FALSE]

InitComments ==
  /\ comments = <<>>
  /\ commentsCount = 0
  /\ creq = [r \in ComReqs |-> IdleCom]
  /\ ccalls = 0

ComOthersIdle == \A r \in ComReqs : creq[r].pc = "idle"

ComStart(r, op, u, id, pc) ==
  /\ creq[r].pc = "idle"
  /\ ccalls < MaxComCalls
  /\ ccalls' = ccalls + 1
  /\ creq' = [creq EXCEPT ![r] = [IdleCom EXCEPT !.pc = pc, !.op = op, !.user = u, !.id = id]]
  /\ UNCHANGED <<comments, commentsCount, nonComVars>>

\* POST /comments/:articleId; parent 0 is a body without parent.
BeginCreateComment(r, u, parent) ==
  ComStart(r, "create", u, parent, IF parent # 0 THEN "parent" ELSE "create")

\* Comment.findOne({_id: parent, article}) of the create route.
ComParent(r) ==
  /\ creq[r].pc = "parent"
  /\ creq' = [creq EXCEPT ![r].pc =
                IF creq[r].id \in 1..Len(comments) THEN "create" ELSE "rejected"]
  /\ UNCHANGED <<comments, commentsCount, ccalls, nonComVars>>

\* Comment.create: the insert; the post('save') hook follows.
ComCreate(r) ==
  /\ creq[r].pc = "create"
  /\ comments' = Append(comments, NewComment(creq[r].user, creq[r].id))
  /\ creq' = [creq EXCEPT ![r].pc = "hook", ![r].status = "approved"]
  /\ UNCHANGED <<commentsCount, ccalls, nonComVars>>

\* PUT /comments/:commentId
BeginEditComment(r, u, id) == ComStart(r, "edit", u, id, "find")

\* DELETE /comments/:commentId
BeginDeleteComment(r, u, id) == ComStart(r, "delete", u, id, "find")

\* The findOne of the edit and delete routes and the checks after it: edit
\* finds the caller's own comment and refuses one older than ten minutes;
\* delete narrows the query to the caller's own comment for role 'user'.
ComFind(r) ==
  /\ creq[r].pc = "find"
  /\ LET q == creq[r]
         own == q.op = "edit" \/ Role(q.user) = "user"
         found == /\ q.id \in 1..Len(comments)
                  /\ own => comments[q.id].user = q.user
     IN  creq' = [creq EXCEPT ![r] =
                    IF ~found THEN [q EXCEPT !.pc = "rejected"]
                    ELSE IF q.op = "edit" /\ comments[q.id].old
                      THEN [q EXCEPT !.pc = "rejected"]
                    ELSE [q EXCEPT !.pc = "save",
                                   !.status = IF q.op = "delete" THEN "deleted"
                                              ELSE comments[q.id].status]]
  /\ UNCHANGED <<comments, commentsCount, ccalls, nonComVars>>

\* comment.save(): edit writes content, isEdited and editedAt, delete writes
\* status and content; the post('save') hook follows.
ComSave(r) ==
  /\ creq[r].pc = "save"
  /\ comments' = [comments EXCEPT ![creq[r].id] =
                    IF creq[r].op = "edit" THEN [@ EXCEPT !.isEdited = TRUE]
                    ELSE [@ EXCEPT !.status = "deleted"]]
  /\ creq' = [creq EXCEPT ![r].pc = "hook"]
  /\ UNCHANGED <<commentsCount, ccalls, nonComVars>>

\* commentSchema.post('save'): this.status is the status of the saved document.
ComHook(r) ==
  /\ creq[r].pc = "hook"
  /\ commentsCount' = IF creq[r].status = "approved" THEN commentsCount + 1
                      ELSE commentsCount
  /\ creq' = [creq EXCEPT ![r].pc = "done"]
  /\ UNCHANGED <<comments, ccalls, nonComVars>>

\* PUT /comments/:commentId/moderate
BeginModerate(r, u, id, status) ==
  /\ creq[r].pc = "idle"
  /\ ccalls < MaxComCalls
  /\ ccalls' = ccalls + 1
  /\ creq' = [creq EXCEPT ![r] =
                [IdleCom EXCEPT !.op = "moderate", !.user = u, !.id = id, !.status = status,
                                !.pc = IF /\ Role(u) \in {"reporter", "admin"}
                                          /\ status \in {"approved", "flagged", "deleted"}
                                         THEN "moderate" ELSE "rejected"]]
  /\ UNCHANGED <<comments, commentsCount, nonComVars>>

\* Comment.findByIdAndUpdate(commentId, {status, ...}): no save hook runs.
ComModerate(r) ==
  /\ creq[r].pc = "moderate"
  /\ IF creq[r].id \in 1..Len(comments)
       THEN /\ comments' = [comments EXCEPT ![creq[r].id].status = creq[r].status]
            /\ creq' = [creq EXCEPT ![r].pc = "done"]
       ELSE /\ creq' = [creq EXCEPT ![r].pc = "rejected"]
            /\ UNCHANGED comments
  /\ UNCHANGED <<commentsCount, ccalls, nonComVars>>

\* POST /comments/:commentId/like
BeginLikeComment(r, u, id) == ComStart(r, "like", u, id, "likeFind")

\* Comment.findById and alreadyLiked = comment.likedBy.includes(req.user._id)
ComLikeFind(r) ==
  /\ creq[r].pc = "likeFind"
  /\ creq' = [creq EXCEPT ![r] =
                IF creq[r].id \in 1..Len(comments)
                  THEN [@ EXCEPT !.pc = "toggle",
                                 !.alreadyLiked = creq[r].user \in comments[creq[r].id].likedBy]
                  ELSE [@ EXCEPT !.pc = "rejected"]]
  /\ UNCHANGED <<comments, commentsCount, ccalls, nonComVars>>

\* Comment.toggleLike(commentId, userId, !alreadyLiked): one atomic update,
\* $inc likes with $addToSet or $pull of likedBy.
toggleLike(doc, userId, increment) ==
  IF increment
    THEN [doc EXCEPT !.likes = @ + 1, !.likedBy = @ \cup {userId}]
    ELSE [doc EXCEPT !.likes = @ - 1, !.likedBy = @ \ {userId}]

ComToggle(r) ==
  /\ creq[r].pc = "toggle"
  /\ comments' = [comments EXCEPT ![creq[r].id] =
                    toggleLike(@, creq[r].user, ~creq[r].alreadyLiked)]
  /\ creq' = [creq EXCEPT ![r].pc = "done"]
  /\ UNCHANGED <<commentsCount, ccalls, nonComVars>>

\* Ten minutes pass: every stored comment is now too old to edit.
TenMinutesPass ==
  /\ \E i \in 1..Len(comments) : ~comments[i].old
  /\ comments' = [i \in 1..Len(comments) |-> [comments[i] EXCEPT !.old = TRUE]]
  /\ UNCHANGED <<commentsCount, creq, ccalls, nonComVars>>

ComFinish(r) ==
  /\ creq[r].pc \in {"done", "rejected"}
  /\ creq' = [creq EXCEPT ![r] = IdleCom]
  /\ UNCHANGED <<comments, commentsCount, ccalls, nonComVars>>

ComBegin ==
  \/ \E r \in ComReqs, u \in ComUsers, p \in 0..1 : BeginCreateComment(r, u, p)
  \/ \E r \in ComReqs, u \in ComUsers, id \in CommentIds : BeginEditComment(r, u, id)
  \/ \E r \in ComReqs, u \in ComUsers, id \in CommentIds : BeginDeleteComment(r, u, id)
  \/ \E r \in ComReqs, u \in ComUsers, id \in CommentIds,
        s \in {"approved", "flagged", "deleted", "pending"} : BeginModerate(r, u, id, s)
  \/ \E r \in ComReqs, u \in ComUsers, id \in CommentIds : BeginLikeComment(r, u, id)

ComStep ==
  \E r \in ComReqs :
    \/ ComParent(r)
    \/ ComCreate(r)
    \/ ComFind(r)
    \/ ComSave(r)
    \/ ComHook(r)
    \/ ComModerate(r)
    \/ ComLikeFind(r)
    \/ ComToggle(r)
    \/ ComFinish(r)

\* One comment request at a time.
NextCommentSeq ==
  \/ ComOthersIdle /\ ComBegin
  \/ ComStep
  \/ TenMinutesPass

\* Comment requests interleave at their awaited operations.
NextComment ==
  \/ ComBegin
  \/ ComStep
  \/ TenMinutesPass

\* --------------------------------------------------------------- user accounts
\* Number of user-administration requests that may be in flight together.
MaxUserReqs == 2

\* User-administration requests served in one behaviour.
MaxUserCalls == 3

UserReqs == 1..MaxUserReqs

\* The stored accounts, and an id that names no account.
Accounts == {"adm1", "adm2"}

NoAccount == "ghost"

Roles == {"user", "reporter", "admin"}

IdleUser ==
  [pc |-> "idle", op |-> "none", actor |-> "none", id |-> "none", role |-> "none",
   isActive |-> FALSE]

\* One admin exists (POST /api/auth/admin/create) next to a registered reader.
InitUsers ==
  /\ users = [u \in Accounts |->
                [role |-> IF u = "adm1" THEN "admin" ELSE "user", isActive |-> TRUE]]
  /\ ureq = [r \in UserReqs |-> IdleUser]
  /\ ucalls = 0

\* protect, adminOnly: the caller's account as stored when the request
\* arrives must be active and carry the role admin.
adminOnly(u) == users[u].isActive /\ users[u].role = "admin"

\* PUT /api/users/:id/role up to its database call: adminOnly, the allow-list
\* of roles, and the refusal to change one's own role.
BeginUpdateRole(r, actor, id, role) ==
  /\ ureq[r].pc = "idle"
  /\ ucalls < MaxUserCalls
  /\ ucalls' = ucalls + 1
  /\ ureq' = [ureq EXCEPT ![r] =
                [IdleUser EXCEPT !.op = "role", !.actor = actor, !.id = id, !.role = role,
                                 !.pc = IF ~adminOnly(actor) THEN "rejected"
                                        ELSE IF role \notin {"user", "reporter", "admin"}
                                          THEN "rejected"
                                        ELSE IF id = actor THEN "rejected"
                                        ELSE "update"]]
  /\ UNCHANGED <<users, nonUsrVars>>

\* PUT /api/users/:id/status up to its database call: adminOnly and the
\* refusal to change one's own status.
BeginUpdateStatus(r, actor, id, isActive) ==
  /\ ureq[r].pc = "idle"
  /\ ucalls < MaxUserCalls
  /\ ucalls' = ucalls + 1
  /\ ureq' = [ureq EXCEPT ![r] =
                [IdleUser EXCEPT !.op = "status", !.actor = actor, !.id = id,
                                 !.isActive = isActive,
                                 !.pc = IF ~adminOnly(actor) THEN "rejected"
                                        ELSE IF id = actor THEN "rejected"
                                        ELSE "update"]]
  /\ UNCHANGED <<users, nonUsrVars>>

\* User.findByIdAndUpdate(req.params.id, { role }) or (..., { isActive });
\* 404 when the id names no account.
UserUpdate(r) ==
  /\ ureq[r].pc = "update"
  /\ LET q == ureq[r]
     IN  IF q.id \in DOMAIN users
           THEN /\ users' = [users EXCEPT ![q.id] =
                               IF q.op = "role" THEN [@ EXCEPT !.role = q.role]
                               ELSE [@ EXCEPT !.isActive = q.isActive]]
                /\ ureq' = [ureq EXCEPT ![r].pc = "done"]
           ELSE /\ ureq' = [ureq EXCEPT ![r].pc = "rejected"]
                /\ UNCHANGED users
  /\ UNCHANGED <<ucalls, nonUsrVars>>

UserFinish(r) ==
  /\ ureq[r].pc \in {"done", "rejected"}
  /\ ureq' = [ureq EXCEPT ![r] = IdleUser]
  /\ UNCHANGED <<users, ucalls, nonUsrVars>>

UserOthersIdle == \A r \in UserReqs : ureq[r].pc = "idle"

UserBegin ==
  \/ \E r \in UserReqs, a \in Accounts, id \in Accounts \cup {NoAccount},
        role \in Roles \cup {"owner"} : BeginUpdateRole(r, a, id, role)
  \/ \E r \in UserReqs, a \in Accounts, id \in Accounts \cup {NoAccount},
        b \in BOOLEAN : BeginUpdateStatus(r, a, id, b)

\* Role and status updates interleave at their database calls.
NextUser ==
  \/ UserBegin
  \/ \E r \in UserReqs : UserUpdate(r) \/ UserFinish(r)

\* One role or status update at a time.
NextUserSeq ==
  \/ UserOthersIdle /\ UserBegin
  \/ \E r \in UserReqs : UserUpdate(r) \/ UserFinish(r)

InitRest == InitComments /\ InitUsers /\ InitServed

Init == InitLang /\ InitEng /\ InitLocIdle /\ InitArt /\ InitCat /\ InitRest

InitInputs == InitLang /\ InitEng /\ InitLoc /\ InitArt /\ InitCat /\ InitRest

SpecLang == Init /\ [][NextLang]_vars

SpecLangSeq == Init /\ [][NextLangSeq]_vars

SpecLangAdmin == Init /\ [][NextLangAdmin]_vars

SpecLangFail == Init /\ [][NextLangFail]_vars

SpecReact == Init /\ [][NextReact]_vars

SpecReactSeq == Init /\ [][NextReactSeq]_vars

SpecView == Init /\ [][NextView]_vars

SpecViewSeq == Init /\ [][NextViewSeq]_vars

SpecEng == Init /\ [][NextEng]_vars

SpecLoc == InitInputs /\ [][NextLoc]_vars

SpecArtSeq == Init /\ [][NextArtSeq]_vars

SpecArt == Init /\ [][NextArt]_vars

SpecPublish == Init /\ [][NextPublish]_vars

SpecCity == Init /\ [][NextCity]_vars

SpecCat == Init /\ [][NextCat]_vars

SpecRead == Init /\ [][NextRead]_vars

SpecUser == Init /\ [][NextUser]_vars

SpecUserSeq == Init /\ [][NextUserSeq]_vars

SpecCommentSeq == Init /\ [][NextCommentSeq]_vars

SpecComment == Init /\ [][NextComment]_vars

\* ------------------------------------------------------------------ claims

DefaultCodes == {c \in LangCodes : langs[c].isDefault}

\* C1: after a successful PUT /api/languages/:id/default on an active language
\* L, processed with no other request in flight, L is the default and no other
\* language is.
C1_SetDefaultMakesSoleDefault ==
  \A r \in LangReqs :
    (lpc[r] = "done" /\ lop[r] = "setDefault") => DefaultCodes = {ltarget[r]}

\* C1 witness: a set-default request has completed on a language that was not
\* the default when the request read it.
C1_Witness ==
  \E r \in LangReqs :
    /\ lpc[r] = "done" /\ lop[r] = "setDefault"
    /\ ~lsnap[r].isDefault
    /\ DefaultCodes = {ltarget[r]}

\* C2: in every reachable state, also while set-default requests interleave,
\* at most one language has isDefault = true.
C2_AtMostOneDefault == Cardinality(DefaultCodes) <= 1

ReactDocs(t) == {d \in engDocs : d.type = t}

\* C4: after any sequence of like and dislike requests processed one after
\* another, no user has both a like and a dislike document; a like by a user
\* who had disliked has removed the dislike document and created the like one.
C4_LikeDislikeExclusive ==
  /\ \A u \in Users :
       FindReaction(engDocs, u, "like") = {} \/ FindReaction(engDocs, u, "dislike") = {}
  /\ \A r \in EngReqs :
       (epc[r] = "done" /\ eop[r] = "like" /\ ehadOpp[r]) =>
          /\ FindReaction(engDocs, euser[r], "dislike") = {}
          /\ FindReaction(engDocs, euser[r], "like") # {}

\* C4 witness: a like request has completed for a user whose dislike it found.
C4_Witness ==
  \E r \in EngReqs :
    /\ epc[r] = "done" /\ eop[r] = "like" /\ ehadOpp[r] /\ eaction[r] = "added"
    /\ FindReaction(engDocs, euser[r], "like") # {}
    /\ FindReaction(engDocs, euser[r], "dislike") = {}

\* C5: after any sequence of like and dislike requests processed one after
\* another, engagement.likes is the number of like documents and
\* engagement.dislikes the number of dislike documents.
C5_CountersMatchDocuments ==
  EngQuiescent =>
    \A t \in ReactTypes : reacts[t] = Cardinality(ReactDocs(t))

\* C5 witness: both counters are positive and match (two users, one reaction each).
C5_Witness ==
  /\ EngQuiescent
  /\ reacts["like"] = 1 /\ reacts["dislike"] = 1
  /\ Cardinality(ReactDocs("like")) = 1 /\ Cardinality(ReactDocs("dislike")) = 1

\* C6: under any interleaving of concurrent like, unlike and dislike requests,
\* once all requests have completed the counters equal the numbers of like
\* and dislike documents, and neither counter is ever negative.
C6_CountersRaceFree ==
  /\ \A t \in ReactTypes : reacts[t] >= 0
  /\ EngQuiescent => \A t \in ReactTypes : reacts[t] = Cardinality(ReactDocs(t))

\* The viewer identities of the claims: a user, an anonymous session, an IP.
ViewerIdentities == Identities \ {<<"none", "none">>}

\* A stored view that makes trackView answer "already counted" to identity i,
\* or (older than 24 hours) makes its create hit a unique index.
BlocksView(d, i) ==
  /\ d.type = "view"
  /\ \/ i[1] = "user" /\ d.user = i[2]
     \/ i[1] = "session" /\ d.user = NoUser /\ d.sess = i[2]
     \/ i[1] = "ip" /\ d.user = NoUser /\ d.ip = i[2] /\ d.fresh

C7_ViewsRaceFree ==
  \A i \in ViewerIdentities : viewRecs[i] <= 1

HasText(entries, key) == Truthy(Lookup(entries, key))

\* C8: for a multilingual field (a mapping, possibly empty or absent) the
\* backend getLocalizedValue returns the requested language's text if it is
\* non-empty, otherwise the default language's text if non-empty, otherwise
\* the first value of the mapping, otherwise the empty string.
C8_BackendResolutionOrder ==
  (beOut # Pending /\ locField.kind # "string") =>
    IF locField.kind = "absent" THEN beOut = Str(<<>>)
    ELSE IF HasText(locField.entries, locLang)
      THEN beOut = Lookup(locField.entries, locLang)
    ELSE IF HasText(locField.entries, locDefault)
      THEN beOut = Lookup(locField.entries, locDefault)
    ELSE IF Len(locField.entries) > 0
      THEN beOut = Str(locField.entries[1].v)
    ELSE beOut = Str(<<>>)

\* C8 witness: the requested language is missing, the default language's
\* text is empty and the helper returned the first value of the mapping.
C8_Witness ==
  /\ beOut # Pending /\ locField.kind = "map"
  /\ Lookup(locField.entries, locLang) = Undefined
  /\ Lookup(locField.entries, locDefault) = Str(<<>>)
  /\ Len(locField.entries) = 2
  /\ Truthy(beOut) /\ beOut = Str(locField.entries[1].v)

\* C9: every endpoint that returns a localized article title answers with
\* the default language's value when the requested language has no entry and
\* the default language's entry is non-empty.
C9_EndpointsFallBackToDefault ==
  (epName # "none"
     /\ Lookup(locField.entries, locLang) = Undefined
     /\ HasText(locField.entries, locDefault)) =>
    epOut = Lookup(locField.entries, locDefault)

\* C10: the backend helper and the frontend helper return the same result
\* for every field value, requested language and fallback language.
C10_BackendEqualsFrontend ==
  (beOut # Pending /\ feOut # Pending) => beOut = feOut

\* The entry of a multilingual map for language d holds more than white space.
NonBlank(entries, d) ==
  /\ Lookup(entries, d) # Undefined
  /\ \E i \in 1..Len(Lookup(entries, d).s) : Lookup(entries, d).s[i] # " "

C12_StoredArticlesHaveDefaultLanguage ==
  \A i \in 1..Len(articles) : \A d \in DefaultCodes :
    /\ NonBlank(articles[i].title, d)
    /\ NonBlank(articles[i].summary, d)
    /\ NonBlank(articles[i].content, d)

\* C13: creating articles whose English titles slugify to the same value, at
\* any times and with their pre-save checks interleaved, succeeds for every
\* article and leaves the stored slugs pairwise distinct.
C13_CollidingTitlesGetDistinctSlugs ==
  /\ \A r \in ArtReqs :
       (areq[r].op = "create" /\ Truthy(Lookup(areq[r].body.title.entries, "en")))
         => areq[r].pc # "failed"
  /\ \A i, j \in 1..Len(articles) : i # j => articles[i].slug # articles[j].slug

\* C14: creating cities whose English names slugify to the same value, with
\* equal, different or missing English state names, succeeds for every city
\* and gives each a slug distinct from every other stored city's slug.
C14_CollidingCitiesGetDistinctSlugs ==
  /\ \A r \in AdminReqs :
       (/\ kreq[r].op = "city"
        /\ Truthy(Lookup(kreq[r].name.entries, "en"))
        /\ \A d \in DefaultCodes :
             NonBlank(kreq[r].name.entries, d) /\ NonBlank(kreq[r].state.entries, d))
         => kreq[r].pc # "failed"
  /\ \A i, j \in 1..Len(cities) : i # j => cities[i].slug # cities[j].slug

\* The list holds exactly the active languages of the database, each once
\* and with its isDefault flag, in non-decreasing order of `order`.
ActiveByOrder(list, db) ==
  /\ {list[i].code : i \in 1..Len(list)} = {c \in DOMAIN db : db[c].isActive}
  /\ \A i, j \in 1..Len(list) :
       i < j => list[i].code # list[j].code /\ db[list[i].code].order <= db[list[j].code].order
  /\ \A i \in 1..Len(list) : list[i].isDefault = db[list[i].code].isDefault

C16_RefreshRaceBenign ==
  ((\A r \in LangReqs : lpc[r] \in {"idle", "done", "rejected"}) /\ cacheSet) =>
    /\ ActiveByOrder(cachedLanguages, langs)
    /\ \/ defaultLanguage \in {c \in DOMAIN langs : langs[c].isActive /\ langs[c].isDefault}
       \/ ~\E c \in DOMAIN langs : langs[c].isActive /\ langs[c].isDefault

\* C17: when an admin sets the status to published through
\* PUT /api/articles/:id/status, an article that already has a publishedAt
\* keeps it.
C17_StatusRouteKeepsPublishedAt ==
  \A r \in ArtReqs :
    LET q == areq[r]
    IN  (/\ q.op = "status" /\ q.pc = "done"
         /\ q.body.status = "published"
         /\ q.before.pub # NoDate)
          => articles[q.id].publishedAt = q.before.pub

\* C18: an article is in status published only through a request made by an
\* admin; requests of reporters (create, update of an own article) bring no
\* article there.
C18_OnlyAdminsPublish ==
  \A i \in 1..Len(articles) :
    articles[i].status = "published" => Role(articles[i].publishedBy) = "admin"

\* The _id fields of an ancestors array.
AncestorIds(cat) == [i \in 1..Len(cat.ancestors) |-> cat.ancestors[i].id]

\* C19: after any category creations and updates, each category's ancestors
\* are its parent's ancestors followed by its parent, none when it has no
\* parent, and its level is the length of its ancestors.  (Stated for the
\* categories whose parent is another stored category or null.)
C19_AncestorsFollowParent ==
  \A i \in 1..Len(cats) :
    LET cat == cats[i]
    IN  /\ cat.parent = 0 => cat.ancestors = <<>> /\ cat.level = 0
        /\ (cat.parent \in 1..Len(cats) /\ cat.parent # i) =>
              /\ AncestorIds(cat) = Append(AncestorIds(cats[cat.parent]), cat.parent)
              /\ cat.level = Len(cat.ancestors)

C21_StatusAllowListOnly ==
  \A r \in ArtReqs :
    LET q == areq[r]
    IN  (q.op = "status" /\ Role(q.user) = "admin" /\ q.id \in 1..Len(articles)) =>
          IF q.body.status \in {"draft", "pending", "published", "archived"}
            THEN /\ q.pc \in {"write", "done"}
                 /\ q.pc = "done" => articles[q.id].status = q.body.status
            ELSE /\ q.pc = "rejected"
                 /\ articles[q.id].status = q.before.st
                 /\ articles[q.id].publishedAt = q.before.pub

\* An archived article was set back to draft by the status route.
C21_Witness ==
  \E r \in ArtReqs :
    /\ areq[r].op = "status" /\ areq[r].pc = "done"
    /\ areq[r].before.st = "archived" /\ areq[r].body.status = "draft"
    /\ articles[areq[r].id].status = "draft"

\* C22: when a refresh of the language cache fails, a cached list and its
\* default are left as they were, and without a cached list the cache
\* becomes the built-in English language as default; in both cases the
\* refresh timestamp is not advanced, and the next read attempts another
\* refresh.
C22_FailedRefreshRetriedByNextRead ==
  [][\A r \in LangReqs :
       (lpc[r] = "refresh" /\ lpc'[r] = "refreshFailed") =>
         /\ IF cacheSet
              THEN cachedLanguages' = cachedLanguages /\ defaultLanguage' = defaultLanguage
              ELSE cachedLanguages' = <<[code |-> "en", isDefault |-> TRUE]>>
                   /\ defaultLanguage' = "en"
         /\ lastRefresh' = lastRefresh
         /\ (~cacheSet' \/ lastRefresh' # "fresh")]_vars

\* The stored views of an identity that are older than 24 hours.
OldViews(u, sess) ==
  {d \in engDocs :
     /\ d.type = "view" /\ ~d.fresh
     /\ IF u # NoUser THEN d.user = u ELSE d.user = NoUser /\ d.sess = sess}

C24_DefaultLanguageIsActive ==
  \A c \in DOMAIN langs : langs[c].isDefault => langs[c].isActive

\* C25: once a comment request (create, edit, delete, moderate) has finished,
\* the article's commentsCount equals the number of its approved comments.
ApprovedComments == {i \in 1..Len(comments) : comments[i].status = "approved"}

C25_CountMatchesApprovedComments ==
  (\A r \in ComReqs : creq[r].pc = "idle") =>
    commentsCount = Cardinality(ApprovedComments)

\* C26: the like counter of a comment equals the number of users in its likedBy,
\* also when like requests of the same user overlap.
C26_LikesMatchLikedBy ==
  \A i \in 1..Len(comments) : comments[i].likes = Cardinality(comments[i].likedBy)

\* C27: no public article route (feed, nearby, trending, by slug, by articleId
\* reference) returns an article whose status is not 'published'.
C27_PublicRoutesServePublishedOnly ==
  \A a \in served.articles : a.status = "published"

\* C28: once an admin exists, some account is always an active admin, under
\* every interleaving of role and status updates issued by admins.
C28_AlwaysAnActiveAdmin ==
  \E u \in DOMAIN users : users[u].role = "admin" /\ users[u].isActive

====
